---- MODULE Spec2Model ----
(***************************************************************************)
(* Verification model of the MwUtil geometry core (Mw/Math).               *)
(*                                                                         *)
(* Scalars are modelled as integers: a totally ordered scalar type T.      *)
(* A point is a sequence of its components; component i of the code        *)
(* (0-based) is element i + 1 of the sequence.                             *)
(*                                                                         *)
(* Every operation is one action.  An action is taken from an idle state   *)
(* (no call pending), performs the whole method on the receiver and        *)
(* records the call in `call`: its name, the receiver before the call, the *)
(* arguments and the value returned.  Return lets the caller go on.        *)
(***************************************************************************)
EXTENDS Integers, Sequences, FiniteSets, TLC

VARIABLES
    kind,          \* Bounds spec: class of the receiver: Bounds<T,N>, Bounds2<T> or Bounds3<T>
    upper_limit,   \* Bounds spec: _upper_limit of the receiver
    lower_limit,   \* Bounds spec: _lower_limit of the receiver
    vkind,         \* Vector spec: class of the receiver: Vector<T,N>, Vector2, Vector3
    components,    \* Vector spec: _components (or _x, _y, _z) of the receiver
    written,       \* Vector spec: value last written to each component
    asserts,       \* TRUE in a Debug build (BOOST_ASSERT active), FALSE with NDEBUG
    numerator,     \* Rational spec: _numerator of the receiver
    denominator,   \* Rational spec: _denominator of the receiver
    normal,        \* Plane spec: _normal of the plane
    origin,        \* Plane spec: _origin of the plane
    state,         \* Lua spec: _state of the State, 0 for NULL
    lua_closes,    \* Lua spec: for each lua_State made by lua_newstate, the calls of lua_close on it
    closed_null,   \* Lua spec: lua_close has been called on NULL
    phase,         \* Lua spec: the State object is "alive", "destroyed", or the program "aborted"
    misused,       \* Lua spec: some call was made against its precondition
    top,           \* Lua spec: lua_gettop of the lua_State of the State
    contexts,      \* Lua spec: the StackContext objects alive, the innermost last
    call           \* the call that has just been made, NoCall when idle

vars == <<kind, upper_limit, lower_limit, vkind, components, written, asserts,
          numerator, denominator, normal, origin,
          state, lua_closes, closed_null, phase, misused, top, contexts, call>>

boundsVars == <<kind, upper_limit, lower_limit>>
vectorVars == <<vkind, components, written, asserts>>
rationalVars == <<numerator, denominator>>
planeVars == <<normal, origin>>
luaVars == <<state, lua_closes, closed_null, phase, misused, top, contexts>>

(***************************************************************************)
(* Bounds of the model.                                                    *)
(***************************************************************************)
\* Largest coordinate of a point.
MaxCoord == 2

BoundsKinds == {"Bounds", "Bounds2", "Bounds3"}

\* Dimension of the receiver: Bounds<T,N> is instantiated with N = 2.
DimOf(k) == IF k = "Bounds3" THEN 3 ELSE 2

\* Coordinates: every value up to MaxCoord in two dimensions, the two extreme
\* values in three dimensions.
ScalarsOf(k) == IF k = "Bounds3" THEN {0, MaxCoord} ELSE 0..MaxCoord

PointsOf(k) == [1..DimOf(k) -> ScalarsOf(k)]

AllBoundsOf(k) == [upper : PointsOf(k), lower : PointsOf(k)]

NoCall == [name |-> "none"]

Idle == call.name = "none"

\* The receiver as a value.
Self == [upper |-> upper_limit, lower |-> lower_limit]

(***************************************************************************)
(* Vector<T,N>: default construction and the accessors used by Bounds.     *)
(***************************************************************************)
\* Vector(): every component is 0.
NullVector(n) == [i \in 1..n |-> 0]

\* Vector::get(index) for an index the caller keeps below N.
get(v, index) == v[index + 1]

\* Vector::set(index, value) for an index the caller keeps below N.
set(v, index, value) == [v EXCEPT ![index + 1] = value]

getX(v) == v[1]
getY(v) == v[2]
getZ(v) == v[3]
setX(v, x) == [v EXCEPT ![1] = x]
setY(v, y) == [v EXCEPT ![2] = y]
setZ(v, z) == [v EXCEPT ![3] = z]

(***************************************************************************)
(* Bounds<T,N,V>  (Mw/Math/Bounds.hpp): loops over the N axes.             *)
(***************************************************************************)
\* Bounds(): both limits default constructed.
Bounds_default(n) == [upper |-> NullVector(n), lower |-> NullVector(n)]

RECURSIVE Bounds_isEmpty_from(_, _)
Bounds_isEmpty_from(b, i) ==
    IF i >= Len(b.upper) THEN FALSE
    ELSE IF get(b.upper, i) <= get(b.lower, i) THEN TRUE
    ELSE Bounds_isEmpty_from(b, i + 1)

Bounds_isEmpty_strict(b) == \E i \in 0..(Len(b.upper) - 1) : get(b.upper, i) < get(b.lower, i)

Bounds_isEmpty(b) == Bounds_isEmpty_from(b, 0)

\* Body of the loop of Bounds::set, taking the first point as the upper corner.
Bounds_set_axis_unordered(b, first, second, i) ==
    [upper |-> set(b.upper, i, get(first, i)),
     lower |-> set(b.lower, i, get(second, i))]

\* Body of the loop of Bounds::set for axis i.
Bounds_set_axis(b, first, second, i) ==
    IF get(first, i) > get(second, i)
    THEN [upper |-> set(b.upper, i, get(first, i)),
          lower |-> set(b.lower, i, get(second, i))]
    ELSE [upper |-> set(b.upper, i, get(second, i)),
          lower |-> set(b.lower, i, get(first, i))]

RECURSIVE Bounds_set_from(_, _, _, _)
Bounds_set_from(b, first, second, i) ==
    IF i >= Len(b.upper) THEN b
    ELSE Bounds_set_from(Bounds_set_axis(b, first, second, i), first, second, i + 1)

Bounds_set(b, first, second) == Bounds_set_from(b, first, second, 0)

Bounds_setUpperLimit(b, upper) == [b EXCEPT !.upper = upper]

Bounds_setLowerLimit(b, lower) == [b EXCEPT !.lower = lower]

\* Body of the loop of Bounds::include(V) with the lower limit never moved.
Bounds_include_axis_upper_only(b, vec, i) ==
    IF get(vec, i) > get(b.upper, i)
    THEN [b EXCEPT !.upper = set(b.upper, i, get(vec, i))]
    ELSE b

\* Body of the loop of Bounds::include(V) assigning the point to both limits.
Bounds_include_axis_assign(b, vec, i) ==
    [upper |-> set(b.upper, i, get(vec, i)),
     lower |-> IF get(vec, i) < get(b.lower, i)
               THEN set(b.lower, i, get(vec, i)) ELSE b.lower]

\* Body of the loop of Bounds::include(V) for axis i.
Bounds_include_axis(b, vec, i) ==
    LET b1 == IF get(vec, i) > get(b.upper, i)
              THEN [b EXCEPT !.upper = set(b.upper, i, get(vec, i))]
              ELSE b
    IN  IF get(vec, i) < get(b1.lower, i)
        THEN [b1 EXCEPT !.lower = set(b1.lower, i, get(vec, i))]
        ELSE b1

RECURSIVE Bounds_include_from(_, _, _)
Bounds_include_from(b, vec, i) ==
    IF i >= Len(b.upper) THEN b
    ELSE Bounds_include_from(Bounds_include_axis(b, vec, i), vec, i + 1)

Bounds_include(b, vec) == Bounds_include_from(b, vec, 0)

\* Bounds::include(const Bounds &): both corners of the other bounds.
Bounds_includeBounds(b, bounds) ==
    Bounds_include(Bounds_include(b, bounds.upper), bounds.lower)

\* First statement of the loop of Bounds::intersect, reading the wrong limit.
Bounds_intersect_upper_typo(b, bounds, i) ==
    IF get(bounds.lower, i) < get(b.upper, i)
    THEN [b EXCEPT !.upper = set(b.upper, i, get(bounds.lower, i))]
    ELSE b

\* First statement of the loop of Bounds::intersect for axis i.
Bounds_intersect_upper(b, bounds, i) ==
    IF get(bounds.upper, i) < get(b.upper, i)
    THEN [b EXCEPT !.upper = set(b.upper, i, get(bounds.upper, i))]
    ELSE b

\* Second statement of the loop of Bounds::intersect for axis i.
Bounds_intersect_lower(b, bounds, i) ==
    IF get(bounds.lower, i) > get(b.lower, i)
    THEN [b EXCEPT !.lower = set(b.lower, i, get(bounds.lower, i))]
    ELSE b

\* Bounds::intersect takes the other bounds by reference: when the argument
\* is the receiver itself (aliased), every read of it sees the writes made so far.
RECURSIVE Bounds_intersect_from(_, _, _, _)
Bounds_intersect_from(b, bounds, aliased, i) ==
    IF i >= Len(b.upper) THEN b
    ELSE LET b1 == Bounds_intersect_upper(b, IF aliased THEN b ELSE bounds, i)
             b2 == Bounds_intersect_lower(b1, IF aliased THEN b1 ELSE bounds, i)
         IN  Bounds_intersect_from(b2, bounds, aliased, i + 1)

Bounds_intersect(b, bounds, aliased) == Bounds_intersect_from(b, bounds, aliased, 0)

\* Bounds::getIntersection: intersect applied to a copy of the receiver, so
\* the argument never aliases the object that is written.
Bounds_getIntersection(b, bounds) == Bounds_intersect(b, bounds, FALSE)

RECURSIVE Bounds_hasPointInside_from(_, _, _)
Bounds_hasPointInside_from(b, vec, i) ==
    IF i >= Len(b.upper) THEN TRUE
    ELSE IF get(vec, i) > get(b.upper, i) \/ get(vec, i) < get(b.lower, i) THEN FALSE
    ELSE Bounds_hasPointInside_from(b, vec, i + 1)

Bounds_hasPointInside(b, vec) == Bounds_hasPointInside_from(b, vec, 0)

RECURSIVE Bounds_hasBoundsInside_from(_, _, _)
Bounds_hasBoundsInside_from(b, bounds, i) ==
    IF i >= Len(b.upper) THEN TRUE
    ELSE IF get(bounds.upper, i) > get(b.upper, i)
            /\ get(bounds.lower, i) < get(b.lower, i) THEN FALSE
    ELSE Bounds_hasBoundsInside_from(b, bounds, i + 1)

Bounds_hasBoundsInside(b, bounds) == Bounds_hasBoundsInside_from(b, bounds, 0)

Bounds_isIntersecting(b, bounds) == ~Bounds_isEmpty(Bounds_getIntersection(b, bounds))

(***************************************************************************)
(* Bounds2<T,V>  (Mw/Math/Bounds2.hpp, current version): x and y unrolled. *)
(***************************************************************************)
Bounds2_isEmpty(b) ==
    getX(b.upper) <= getX(b.lower) \/ getY(b.upper) <= getY(b.lower)

Bounds2_set(b, first, second) ==
    LET bx == IF getX(first) > getX(second)
              THEN [upper |-> setX(b.upper, getX(first)), lower |-> setX(b.lower, getX(second))]
              ELSE [upper |-> setX(b.upper, getX(second)), lower |-> setX(b.lower, getX(first))]
    IN  IF getY(first) > getY(second)
        THEN [upper |-> setY(bx.upper, getY(first)), lower |-> setY(bx.lower, getY(second))]
        ELSE [upper |-> setY(bx.upper, getY(second)), lower |-> setY(bx.lower, getY(first))]

Bounds2_include(b, vec) ==
    LET u1 == IF getX(vec) > getX(b.upper) THEN setX(b.upper, getX(vec)) ELSE b.upper
        u2 == IF getY(vec) > getY(u1) THEN setY(u1, getY(vec)) ELSE u1
        l1 == IF getX(vec) < getX(b.lower) THEN setX(b.lower, getX(vec)) ELSE b.lower
        l2 == IF getY(vec) < getY(l1) THEN setY(l1, getY(vec)) ELSE l1
    IN  [upper |-> u2, lower |-> l2]

Bounds2_includeBounds(b, bounds) ==
    Bounds2_include(Bounds2_include(b, bounds.upper), bounds.lower)

\* Bounds2::intersect; the argument is a reference, read again after each
\* write when it is the receiver itself (aliased).
Bounds2_intersect(b, bounds, aliased) ==
    LET o0 == IF aliased THEN b ELSE bounds
        b1 == IF getX(o0.upper) < getX(b.upper)
              THEN [b EXCEPT !.upper = setX(b.upper, getX(o0.upper))] ELSE b
        o1 == IF aliased THEN b1 ELSE bounds
        b2 == IF getY(o1.upper) < getY(b1.upper)
              THEN [b1 EXCEPT !.upper = setY(b1.upper, getY(o1.upper))] ELSE b1
        o2 == IF aliased THEN b2 ELSE bounds
        b3 == IF getX(o2.lower) > getX(b2.lower)
              THEN [b2 EXCEPT !.lower = setX(b2.lower, getX(o2.lower))] ELSE b2
        o3 == IF aliased THEN b3 ELSE bounds
    IN  IF getY(o3.lower) > getY(b3.lower)
        THEN [b3 EXCEPT !.lower = setY(b3.lower, getY(o3.lower))] ELSE b3

Bounds2_getIntersection(b, bounds) == Bounds2_intersect(b, bounds, FALSE)

\* Bounds2::isInside(const V &)
Bounds2_isInside(b, vec) ==
    /\ getX(vec) <= getX(b.upper)
    /\ getY(vec) <= getY(b.upper)
    /\ getX(vec) >= getX(b.lower)
    /\ getY(vec) >= getY(b.lower)

\* Bounds2::isInside(const Bounds2 &)
Bounds2_isInsideBounds(b, bounds) ==
    /\ getX(bounds.upper) <= getX(b.upper)
    /\ getY(bounds.upper) <= getY(b.upper)
    /\ getX(bounds.lower) >= getX(b.lower)
    /\ getY(bounds.lower) >= getY(b.lower)

(***************************************************************************)
(* Bounds3<T,V>  (Mw/Math/Bounds3.hpp): x, y and z unrolled.               *)
(***************************************************************************)
Bounds3_isEmpty(b) ==
    \/ getX(b.upper) <= getX(b.lower)
    \/ getY(b.upper) <= getY(b.lower)
    \/ getZ(b.upper) <= getZ(b.lower)

Bounds3_set(b, first, second) ==
    LET bx == IF getX(first) > getX(second)
              THEN [upper |-> setX(b.upper, getX(first)), lower |-> setX(b.lower, getX(second))]
              ELSE [upper |-> setX(b.upper, getX(second)), lower |-> setX(b.lower, getX(first))]
        by == IF getY(first) > getY(second)
              THEN [upper |-> setY(bx.upper, getY(first)), lower |-> setY(bx.lower, getY(second))]
              ELSE [upper |-> setY(bx.upper, getY(second)), lower |-> setY(bx.lower, getY(first))]
    IN  IF getZ(first) > getZ(second)
        THEN [upper |-> setZ(by.upper, getZ(first)), lower |-> setZ(by.lower, getZ(second))]
        ELSE [upper |-> setZ(by.upper, getZ(second)), lower |-> setZ(by.lower, getZ(first))]

Bounds3_include(b, vec) ==
    LET u1 == IF getX(vec) > getX(b.upper) THEN setX(b.upper, getX(vec)) ELSE b.upper
        u2 == IF getY(vec) > getY(u1) THEN setY(u1, getY(vec)) ELSE u1
        u3 == IF getZ(vec) > getZ(u2) THEN setZ(u2, getZ(vec)) ELSE u2
        l1 == IF getX(vec) < getX(b.lower) THEN setX(b.lower, getX(vec)) ELSE b.lower
        l2 == IF getY(vec) < getY(l1) THEN setY(l1, getY(vec)) ELSE l1
        l3 == IF getZ(vec) < getZ(l2) THEN setZ(l2, getZ(vec)) ELSE l2
    IN  [upper |-> u3, lower |-> l3]

Bounds3_includeBounds(b, bounds) ==
    Bounds3_include(Bounds3_include(b, bounds.upper), bounds.lower)

\* Bounds3::intersect: the code updates the x and y axes only.
Bounds3_intersect(b, bounds, aliased) ==
    LET o0 == IF aliased THEN b ELSE bounds
        b1 == IF getX(o0.upper) < getX(b.upper)
              THEN [b EXCEPT !.upper = setX(b.upper, getX(o0.upper))] ELSE b
        o1 == IF aliased THEN b1 ELSE bounds
        b2 == IF getY(o1.upper) < getY(b1.upper)
              THEN [b1 EXCEPT !.upper = setY(b1.upper, getY(o1.upper))] ELSE b1
        o2 == IF aliased THEN b2 ELSE bounds
        b3 == IF getX(o2.lower) > getX(b2.lower)
              THEN [b2 EXCEPT !.lower = setX(b2.lower, getX(o2.lower))] ELSE b2
        o3 == IF aliased THEN b3 ELSE bounds
    IN  IF getY(o3.lower) > getY(b3.lower)
        THEN [b3 EXCEPT !.lower = setY(b3.lower, getY(o3.lower))] ELSE b3

Bounds3_getIntersection(b, bounds) == Bounds3_intersect(b, bounds, FALSE)

\* Bounds3::isInside(const V &): the code tests the x and y axes only.
Bounds3_isInside(b, vec) ==
    /\ getX(vec) <= getX(b.upper)
    /\ getY(vec) <= getY(b.upper)
    /\ getX(vec) >= getX(b.lower)
    /\ getY(vec) >= getY(b.lower)

\* Bounds3::isInside(const Bounds3 &)
Bounds3_isInsideBounds(b, bounds) ==
    /\ getX(bounds.upper) <= getX(b.upper)
    /\ getY(bounds.upper) <= getY(b.upper)
    /\ getZ(bounds.upper) <= getZ(b.upper)
    /\ getX(bounds.lower) >= getX(b.lower)
    /\ getY(bounds.lower) >= getY(b.lower)
    /\ getZ(bounds.lower) >= getZ(b.lower)

(***************************************************************************)
(* The method of the receiver's class.                                     *)
(***************************************************************************)
isEmpty_(k, b) ==
    CASE k = "Bounds" -> Bounds_isEmpty(b)
      [] k = "Bounds2" -> Bounds2_isEmpty(b)
      [] k = "Bounds3" -> Bounds3_isEmpty(b)

set_(k, b, first, second) ==
    CASE k = "Bounds" -> Bounds_set(b, first, second)
      [] k = "Bounds2" -> Bounds2_set(b, first, second)
      [] k = "Bounds3" -> Bounds3_set(b, first, second)

include_(k, b, vec) ==
    CASE k = "Bounds" -> Bounds_include(b, vec)
      [] k = "Bounds2" -> Bounds2_include(b, vec)
      [] k = "Bounds3" -> Bounds3_include(b, vec)

includeBounds_(k, b, bounds) ==
    CASE k = "Bounds" -> Bounds_includeBounds(b, bounds)
      [] k = "Bounds2" -> Bounds2_includeBounds(b, bounds)
      [] k = "Bounds3" -> Bounds3_includeBounds(b, bounds)

intersect_(k, b, bounds, aliased) ==
    CASE k = "Bounds" -> Bounds_intersect(b, bounds, aliased)
      [] k = "Bounds2" -> Bounds2_intersect(b, bounds, aliased)
      [] k = "Bounds3" -> Bounds3_intersect(b, bounds, aliased)

getIntersection_(k, b, bounds) ==
    CASE k = "Bounds" -> Bounds_getIntersection(b, bounds)
      [] k = "Bounds2" -> Bounds2_getIntersection(b, bounds)
      [] k = "Bounds3" -> Bounds3_getIntersection(b, bounds)

\* hasPointInside(vec) in Bounds, isInside(vec) in Bounds2 and Bounds3.
hasPointInside_(k, b, vec) ==
    CASE k = "Bounds" -> Bounds_hasPointInside(b, vec)
      [] k = "Bounds2" -> Bounds2_isInside(b, vec)
      [] k = "Bounds3" -> Bounds3_isInside(b, vec)

\* hasBoundsInside(bounds) in Bounds, isInside(bounds) in Bounds2 and Bounds3.
hasBoundsInside_(k, b, bounds) ==
    CASE k = "Bounds" -> Bounds_hasBoundsInside(b, bounds)
      [] k = "Bounds2" -> Bounds2_isInsideBounds(b, bounds)
      [] k = "Bounds3" -> Bounds3_isInsideBounds(b, bounds)

(***************************************************************************)
(* Bounds: the state machine.                                              *)
(***************************************************************************)
\* The vector object is not used by the bounds operations.
VectorUnused ==
    /\ vkind = "Vector"
    /\ components = NullVector(2)
    /\ written = NullVector(2)
    /\ asserts = TRUE

\* The rational, the plane and the Lua state are not used by the bounds and
\* vector operations.
RationalUnused ==
    /\ numerator = 0
    /\ denominator = 1
    /\ normal = <<1, 0>>
    /\ origin = 0
    /\ state = 0
    /\ lua_closes = << >>
    /\ closed_null = FALSE
    /\ phase = "alive"
    /\ misused = FALSE
    /\ top = 0
    /\ contexts = << >>

\* A default constructed bounds of any of the three classes.
Init ==
    /\ kind \in BoundsKinds
    /\ upper_limit = Bounds_default(DimOf(kind)).upper
    /\ lower_limit = Bounds_default(DimOf(kind)).lower
    /\ call = [name |-> "Bounds"]
    /\ VectorUnused
    /\ RationalUnused

\* Store the receiver after a call and the record of the call.
Becomes(b, c) ==
    /\ upper_limit' = b.upper
    /\ lower_limit' = b.lower
    /\ call' = c
    /\ UNCHANGED <<kind, vectorVars, rationalVars, planeVars, luaVars>>

\* Bounds(first, second): a new bounds, set from the two points.
Construct ==
    /\ Idle
    /\ \E first \in PointsOf(kind), second \in PointsOf(kind) :
        /\ Becomes(set_(kind, Bounds_default(DimOf(kind)), first, second),
                   [name |-> "Bounds2p", pre |-> Bounds_default(DimOf(kind)),
                    first |-> first, second |-> second])

Set ==
    /\ Idle
    /\ \E first \in PointsOf(kind), second \in PointsOf(kind) :
        /\ Becomes(set_(kind, Self, first, second),
                   [name |-> "set", pre |-> Self, first |-> first, second |-> second])

SetUpperLimit ==
    /\ Idle
    /\ \E upper \in PointsOf(kind) :
        /\ Becomes(Bounds_setUpperLimit(Self, upper),
                   [name |-> "setUpperLimit", pre |-> Self, vec |-> upper])

SetLowerLimit ==
    /\ Idle
    /\ \E lower \in PointsOf(kind) :
        /\ Becomes(Bounds_setLowerLimit(Self, lower),
                   [name |-> "setLowerLimit", pre |-> Self, vec |-> lower])

IncludePoint ==
    /\ Idle
    /\ \E vec \in PointsOf(kind) :
        /\ Becomes(include_(kind, Self, vec),
                   [name |-> "include", pre |-> Self, vec |-> vec])

IncludeBounds ==
    /\ Idle
    /\ \E bounds \in AllBoundsOf(kind) :
        /\ Becomes(includeBounds_(kind, Self, bounds),
                   [name |-> "includeBounds", pre |-> Self, bounds |-> bounds])

\* b.intersect(other) with another object.
Intersect ==
    /\ Idle
    /\ \E bounds \in AllBoundsOf(kind) :
        /\ Becomes(intersect_(kind, Self, bounds, FALSE),
                   [name |-> "intersect", pre |-> Self, bounds |-> bounds, aliased |-> FALSE])

\* b.intersect(b)
IntersectSelf ==
    /\ Idle
    /\ Becomes(intersect_(kind, Self, Self, TRUE),
               [name |-> "intersect", pre |-> Self, bounds |-> Self, aliased |-> TRUE])

\* b.getIntersection(other), other being another object or b itself.
GetIntersection ==
    /\ Idle
    /\ \E bounds \in AllBoundsOf(kind) :
        /\ Becomes(Self,
                   [name |-> "getIntersection", pre |-> Self, bounds |-> bounds,
                    ret |-> getIntersection_(kind, Self, bounds)])

HasPointInside ==
    /\ Idle
    /\ \E vec \in PointsOf(kind) :
        /\ Becomes(Self,
                   [name |-> "hasPointInside", pre |-> Self, vec |-> vec,
                    ret |-> hasPointInside_(kind, Self, vec)])

HasBoundsInside ==
    /\ Idle
    /\ \E bounds \in AllBoundsOf(kind) :
        /\ Becomes(Self,
                   [name |-> "hasBoundsInside", pre |-> Self, bounds |-> bounds,
                    ret |-> hasBoundsInside_(kind, Self, bounds)])

IsEmpty ==
    /\ Idle
    /\ Becomes(Self, [name |-> "isEmpty", pre |-> Self, ret |-> isEmpty_(kind, Self)])

\* Only Bounds<T,N> has isIntersecting.
IsIntersecting ==
    /\ Idle
    /\ kind = "Bounds"
    /\ \E bounds \in AllBoundsOf(kind) :
        /\ Becomes(Self,
                   [name |-> "isIntersecting", pre |-> Self, bounds |-> bounds,
                    ret |-> Bounds_isIntersecting(Self, bounds)])

\* The caller takes the result; the next call can be made.
Return ==
    /\ ~Idle
    /\ call' = NoCall
    /\ UNCHANGED <<boundsVars, vectorVars, rationalVars, planeVars, luaVars>>

Next ==
    \/ Construct
    \/ Set
    \/ SetUpperLimit
    \/ SetLowerLimit
    \/ IncludePoint
    \/ IncludeBounds
    \/ Intersect
    \/ IntersectSelf
    \/ GetIntersection
    \/ HasPointInside
    \/ HasBoundsInside
    \/ IsEmpty
    \/ IsIntersecting
    \/ Return

Spec == Init /\ [][Next]_vars

(***************************************************************************)
(* Vectors: Vector<T,N> (Mw/Math/Vector.hpp), Vector2<T> in its current    *)
(* and its earlier version (Mw/Math/Vector2.hpp), Vector3<T>.              *)
(***************************************************************************)
\* Largest index passed to get(index) and set(index, value).
MaxIndex == 4

VectorKinds == {"Vector", "Vector2", "Vector2_earlier", "Vector3"}

\* Number of components: Vector<T,N> is instantiated with N = 3.
VDimOf(k) == IF k \in {"Vector2", "Vector2_earlier"} THEN 2 ELSE 3

Scalars == 0..MaxCoord

VectorsOf(k) == [1..VDimOf(k) -> Scalars]

\* How a call ends: it returns ("ok"), throws one of the std exceptions, or
\* stops the program on a failed BOOST_ASSERT.
Outcomes == {"ok", "out_of_range", "domain_error", "invalid_argument", "assertion_failed"}

\* Vector::get(unsigned)
Vector_get(v, index) ==
    IF index >= Len(v) THEN [outcome |-> "out_of_range"]
    ELSE [outcome |-> "ok", value |-> get(v, index)]

\* Vector::set(unsigned, T) clamping the index instead of rejecting it.
Vector_set_clamped(v, index, value) ==
    IF index >= Len(v) THEN [outcome |-> "ok", components |-> set(v, Len(v) - 1, value)]
    ELSE [outcome |-> "ok", components |-> set(v, index, value)]

\* Vector::set(unsigned, T)
Vector_set(v, index, value) ==
    IF index >= Len(v) THEN [outcome |-> "out_of_range", components |-> v]
    ELSE [outcome |-> "ok", components |-> set(v, index, value)]

\* Quotient of two scalars, the divisor not being zero.
Quotient(x, f) == x \div f

\* Every component divided by a scalar that is not zero.
Divided(v, f) == [i \in 1..Len(v) |-> Quotient(v[i], f)]

\* What a division of every component by zero leaves in the vector: an
\* infinity or a NaN for a floating point T, anything for an integral T.
DividedByZero(v) == [1..Len(v) -> Scalars]

\* Vector::operator /=  : the set of ways the call can end.
Vector_divAssign(v, f) ==
    IF f = 0 THEN {[outcome |-> "domain_error", components |-> v]}
    ELSE {[outcome |-> "ok", components |-> Divided(v, f)]}

\* Vector2::operator /=
Vector2_divAssign(v, f) ==
    IF f = 0 THEN {[outcome |-> "invalid_argument", components |-> v]}
    ELSE {[outcome |-> "ok", components |-> Divided(v, f)]}

\* Vector2::operator /= of the earlier version: no test of the divisor.
Vector2_earlier_divAssign(v, f) ==
    IF f = 0 THEN {[outcome |-> "ok", components |-> w] : w \in DividedByZero(v)}
    ELSE {[outcome |-> "ok", components |-> Divided(v, f)]}

\* Vector3::operator /=  : BOOST_ASSERT(f) is compiled out by NDEBUG.
Vector3_divAssign(v, f, debug) ==
    IF f = 0 /\ debug THEN {[outcome |-> "assertion_failed", components |-> v]}
    ELSE IF f = 0 THEN {[outcome |-> "ok", components |-> w] : w \in DividedByZero(v)}
    ELSE {[outcome |-> "ok", components |-> Divided(v, f)]}

divAssign_(k, v, f, debug) ==
    CASE k = "Vector" -> Vector_divAssign(v, f)
      [] k = "Vector2" -> Vector2_divAssign(v, f)
      [] k = "Vector2_earlier" -> Vector2_earlier_divAssign(v, f)
      [] k = "Vector3" -> Vector3_divAssign(v, f, debug)

\* operator / of boost::multiplicative: /= applied to a copy of the vector.
div_(k, v, f, debug) == divAssign_(k, v, f, debug)

(***************************************************************************)
(* Vectors: length and normalization.                                      *)
(***************************************************************************)
\* a ^ b of the code: the bitwise exclusive or of two scalars that are not
\* negative.
RECURSIVE Xor(_, _)
Xor(a, b) ==
    IF a = 0 THEN b
    ELSE IF b = 0 THEN a
    ELSE 2 * Xor(a \div 2, b \div 2) + (((a % 2) + (b % 2)) % 2)

\* std::sqrt converted to the scalar type T: the root without its fraction.
Sqrt(s) == CHOOSE r \in 0..s : r * r <= s /\ (r + 1) * (r + 1) > s

\* Vector::isNull(): false at the first component that is not zero.
Vector_isNull(v) ==
    LET RECURSIVE from(_)
        from(i) == IF i >= Len(v) THEN TRUE
                   ELSE IF get(v, i) # 0 THEN FALSE
                   ELSE from(i + 1)
    IN  from(0)

\* Vector2::isNull()
Vector2_isNull(v) == getX(v) = 0 /\ getY(v) = 0

\* Vector3::isNull()
Vector3_isNull(v) == getX(v) = 0 /\ getY(v) = 0 /\ getZ(v) = 0

isNull_(k, v) ==
    CASE k = "Vector" -> Vector_isNull(v)
      [] k \in {"Vector2", "Vector2_earlier"} -> Vector2_isNull(v)
      [] k = "Vector3" -> Vector3_isNull(v)

\* Vector::getLength(): the root of the sum of get<i>()^2.
Vector_getLength(v) ==
    LET RECURSIVE len(_)
        len(i) == IF i >= Len(v) THEN 0 ELSE Xor(get(v, i), 2) + len(i + 1)
    IN  Sqrt(len(0))

\* Vector2::getLength()
Vector2_getLength(v) == Sqrt(getX(v) * getX(v) + getY(v) * getY(v))

\* Vector3::getLength()
Vector3_getLength(v) == Sqrt(getX(v) * getX(v) + getY(v) * getY(v) + getZ(v) * getZ(v))

getLength_(k, v) ==
    CASE k = "Vector" -> Vector_getLength(v)
      [] k \in {"Vector2", "Vector2_earlier"} -> Vector2_getLength(v)
      [] k = "Vector3" -> Vector3_getLength(v)

\* Every component divided by a length: the way the call ends, dbz telling
\* that the division was one by zero.
DividedByLength(v, l) ==
    IF l = 0
    THEN {[outcome |-> "ok", components |-> w, dbz |-> TRUE] : w \in DividedByZero(v)}
    ELSE {[outcome |-> "ok", components |-> Divided(v, l), dbz |-> FALSE]}

\* A call that ends without a result.
Fails(v, how) == {[outcome |-> how, components |-> v, dbz |-> FALSE]}

\* Vector::normalize()
Vector_normalize(v) ==
    IF Vector_isNull(v) THEN Fails(v, "domain_error")
    ELSE DividedByLength(v, Vector_getLength(v))

\* Vector::getNormalization(): normalize() on a copy.
Vector_getNormalization(v) == Vector_normalize(v)

\* Vector2::normalize(): BOOST_ASSERT(!isNull()) is compiled out by NDEBUG.
Vector2_normalize(v, debug) ==
    IF Vector2_isNull(v) /\ debug THEN Fails(v, "assertion_failed")
    ELSE DividedByLength(v, Vector2_getLength(v))

\* Vector2::getNormalization()
Vector2_getNormalization(v, debug) ==
    IF Vector2_isNull(v) /\ debug THEN Fails(v, "assertion_failed")
    ELSE DividedByLength(v, Vector2_getLength(v))

\* Vector3::normalize()
Vector3_normalize(v, debug) ==
    IF Vector3_isNull(v) /\ debug THEN Fails(v, "assertion_failed")
    ELSE DividedByLength(v, Vector3_getLength(v))

\* Vector3::getNormalization()
Vector3_getNormalization(v, debug) ==
    IF Vector3_isNull(v) /\ debug THEN Fails(v, "assertion_failed")
    ELSE DividedByLength(v, Vector3_getLength(v))

normalize_(k, v, debug) ==
    CASE k = "Vector" -> Vector_normalize(v)
      [] k \in {"Vector2", "Vector2_earlier"} -> Vector2_normalize(v, debug)
      [] k = "Vector3" -> Vector3_normalize(v, debug)

getNormalization_(k, v, debug) ==
    CASE k = "Vector" -> Vector_getNormalization(v)
      [] k \in {"Vector2", "Vector2_earlier"} -> Vector2_getNormalization(v, debug)
      [] k = "Vector3" -> Vector3_getNormalization(v, debug)

(***************************************************************************)
(* Vectors: dot product and projections.                                   *)
(***************************************************************************)
\* Vector::dot(vec)
Vector_dot(v, vec) ==
    LET RECURSIVE sum(_)
        sum(i) == IF i >= Len(v) THEN 0 ELSE get(v, i) * get(vec, i) + sum(i + 1)
    IN  sum(0)

\* Vector2::dot(vec)
Vector2_dot(v, vec) == getX(v) * getX(vec) + getY(v) * getY(vec)

\* Vector3::dot(vec)
Vector3_dot(v, vec) == getX(v) * getX(vec) + getY(v) * getY(vec) + getZ(v) * getZ(vec)

\* Every component of vec multiplied by a scalar.
Scaled(vec, prod) == [i \in 1..Len(vec) |-> prod * vec[i]]

\* prod = d / prod followed by the products prod * vec[i]: the way the call
\* ends, dbz telling that the division was one by zero.
Projected(vec, d, prod) ==
    IF prod = 0
    THEN {[outcome |-> "ok", components |-> w, dbz |-> TRUE] : w \in DividedByZero(vec)}
    ELSE {[outcome |-> "ok", components |-> Scaled(vec, Quotient(d, prod)), dbz |-> FALSE]}

\* Vector::project(vec): BOOST_ASSERT(!vec.isNull()) is compiled out by
\* NDEBUG; the divisor is the sum of vec.get<i>()^2.
Vector_project(v, vec, debug) ==
    LET RECURSIVE prod(_)
        prod(i) == IF i >= Len(vec) THEN 0 ELSE Xor(get(vec, i), 2) + prod(i + 1)
    IN  IF Vector_isNull(vec) /\ debug THEN Fails(v, "assertion_failed")
        ELSE Projected(vec, Vector_dot(v, vec), prod(0))

\* Vector::getProjection(vec): project(vec) on a copy.
Vector_getProjection(v, vec, debug) == Vector_project(v, vec, debug)

\* The scalar a call returns or fails to return, from the way the
\* normalization of vec ended.
DotWith(v, r, d) ==
    [outcome |-> r.outcome, dbz |-> r.dbz, value |-> IF r.outcome = "ok" THEN d ELSE 0]

\* Vector::getScalarProjection(vec)
Vector_getScalarProjection(v, vec) ==
    {DotWith(v, r, Vector_dot(v, r.components)) : r \in Vector_getNormalization(vec)}

\* Vector2::project(vec)
Vector2_project(v, vec, debug) ==
    IF Vector2_isNull(vec) /\ debug THEN Fails(v, "assertion_failed")
    ELSE Projected(vec, Vector2_dot(v, vec), Vector2_getLength(vec) * Vector2_getLength(vec))

\* Vector2::getProjection(vec)
Vector2_getProjection(v, vec, debug) ==
    IF Vector2_isNull(vec) /\ debug THEN Fails(v, "assertion_failed")
    ELSE Projected(vec, Vector2_dot(v, vec), Vector2_getLength(vec) * Vector2_getLength(vec))

\* Vector2::getScalarProjection(vec)
Vector2_getScalarProjection(v, vec, debug) ==
    {DotWith(v, r, Vector2_dot(v, r.components)) : r \in Vector2_getNormalization(vec, debug)}

\* Vector3::project(vec)
Vector3_project(v, vec, debug) ==
    IF Vector3_isNull(vec) /\ debug THEN Fails(v, "assertion_failed")
    ELSE Projected(vec, Vector3_dot(v, vec), Vector3_getLength(vec) * Vector3_getLength(vec))

\* Vector3::getProjection(vec)
Vector3_getProjection(v, vec, debug) ==
    IF Vector3_isNull(vec) /\ debug THEN Fails(v, "assertion_failed")
    ELSE Projected(vec, Vector3_dot(v, vec), Vector3_getLength(vec) * Vector3_getLength(vec))

\* Vector3::getScalarProjection(vec)
Vector3_getScalarProjection(v, vec, debug) ==
    {DotWith(v, r, Vector3_dot(v, r.components)) : r \in Vector3_getNormalization(vec, debug)}

project_(k, v, vec, debug) ==
    CASE k = "Vector" -> Vector_project(v, vec, debug)
      [] k \in {"Vector2", "Vector2_earlier"} -> Vector2_project(v, vec, debug)
      [] k = "Vector3" -> Vector3_project(v, vec, debug)

getProjection_(k, v, vec, debug) ==
    CASE k = "Vector" -> Vector_getProjection(v, vec, debug)
      [] k \in {"Vector2", "Vector2_earlier"} -> Vector2_getProjection(v, vec, debug)
      [] k = "Vector3" -> Vector3_getProjection(v, vec, debug)

getScalarProjection_(k, v, vec, debug) ==
    CASE k = "Vector" -> Vector_getScalarProjection(v, vec)
      [] k \in {"Vector2", "Vector2_earlier"} -> Vector2_getScalarProjection(v, vec, debug)
      [] k = "Vector3" -> Vector3_getScalarProjection(v, vec, debug)

(***************************************************************************)
(* Vectors: cross product, negation and the normals of Vector2.            *)
(***************************************************************************)
\* Vector::cross(vec), defined for N = 3.
Vector_cross(v, vec) ==
    LET t == NullVector(3)
        t1 == setX(t, getY(v) * getZ(vec) - getZ(v) * getY(vec))
        t2 == setY(t1, getZ(v) * getX(vec) - getX(v) * getZ(vec))
        t3 == setZ(t2, getX(v) * getY(vec) - getY(v) * getX(vec))
    IN  t3

\* Vector3::cross(vec) with the terms of its second component exchanged.
Vector3_cross_exchanged(v, vec) ==
    << getY(v) * getZ(vec) - getZ(v) * getY(vec),
       getX(v) * getZ(vec) - getZ(v) * getX(vec),
       getX(v) * getY(vec) - getY(v) * getX(vec) >>

\* Vector3::cross(vec)
Vector3_cross(v, vec) ==
    << getY(v) * getZ(vec) - getZ(v) * getY(vec),
       getZ(v) * getX(vec) - getX(v) * getZ(vec),
       getX(v) * getY(vec) - getY(v) * getX(vec) >>

cross_(k, v, vec) ==
    CASE k = "Vector" -> Vector_cross(v, vec)
      [] k = "Vector3" -> Vector3_cross(v, vec)

\* Vector::operator - ()
Vector_neg(v) ==
    LET RECURSIVE from(_, _)
        from(tmp, i) == IF i >= Len(tmp) THEN tmp
                        ELSE from(set(tmp, i, - get(v, i)), i + 1)
    IN  from(v, 0)

\* Vector2::operator - ()
Vector2_neg(v) == << - getX(v), - getY(v) >>

\* Vector3::operator - ()
Vector3_neg(v) == << - getX(v), - getY(v), - getZ(v) >>

neg_(k, v) ==
    CASE k = "Vector" -> Vector_neg(v)
      [] k \in {"Vector2", "Vector2_earlier"} -> Vector2_neg(v)
      [] k = "Vector3" -> Vector3_neg(v)

\* Vector2::getLeftHandNormal()
Vector2_getLeftHandNormal(v) == << getY(v), - getX(v) >>

\* Vector2::getRightHandNormal() without the negation.
Vector2_getRightHandNormal_swap_only(v) == << getY(v), getX(v) >>

\* Vector2::getRightHandNormal()
Vector2_getRightHandNormal(v) == << - getY(v), getX(v) >>

\* BOOST_STATIC_ASSERT_MSG(N == 0, ...) of Vector<T,N>: the class is compiled
\* for the dimensions that make the condition true.
Vector_static_assert(N) == N = 0

(***************************************************************************)
(* Vectors: the state machine.                                             *)
(***************************************************************************)
\* The bounds object is not used by the vector operations.
BoundsUnused ==
    /\ kind = "Bounds"
    /\ upper_limit = NullVector(2)
    /\ lower_limit = NullVector(2)

\* A default constructed vector of any class, in a Debug or a Release build.
InitVector ==
    /\ vkind \in VectorKinds
    /\ asserts \in BOOLEAN
    /\ components = NullVector(VDimOf(vkind))
    /\ written = NullVector(VDimOf(vkind))
    /\ call = [name |-> "Vector"]
    /\ BoundsUnused
    /\ RationalUnused

VectorBecomes(v, w, c) ==
    /\ components' = v
    /\ written' = w
    /\ call' = c
    /\ UNCHANGED <<vkind, asserts, boundsVars, rationalVars, planeVars, luaVars>>

\* Vector2(x, y), Vector3(x, y, z), set(x, y), set(x, y, z): every component
\* is given.  Vector<T,N> has no such operation.
VectorAssign ==
    /\ Idle
    /\ vkind # "Vector"
    /\ \E v \in VectorsOf(vkind) :
        VectorBecomes(v, v, [name |-> "assign", pre |-> components, vec |-> v])

\* v.get(index), Vector<T,N> only.
VectorGet ==
    /\ Idle
    /\ vkind = "Vector"
    /\ \E index \in 0..MaxIndex :
        LET r == Vector_get(components, index)
        IN  VectorBecomes(components, written,
                [name |-> "get", pre |-> components, index |-> index,
                 outcome |-> r.outcome,
                 ret |-> IF r.outcome = "ok" THEN r.value ELSE 0])

\* v.set(index, value), Vector<T,N> only.
VectorSet ==
    /\ Idle
    /\ vkind = "Vector"
    /\ \E index \in 0..MaxIndex, value \in Scalars :
        LET r == Vector_set(components, index, value)
        IN  VectorBecomes(r.components,
                IF index < VDimOf(vkind) THEN set(written, index, value) ELSE written,
                [name |-> "set", pre |-> components, index |-> index,
                 value |-> value, outcome |-> r.outcome])

\* v /= f
VectorDivAssign ==
    /\ Idle
    /\ \E f \in Scalars :
        \E r \in divAssign_(vkind, components, f, asserts) :
            VectorBecomes(r.components, r.components,
                [name |-> "/=", pre |-> components, f |-> f, outcome |-> r.outcome])

\* v / f : the receiver is left alone, the quotient is returned.
VectorDiv ==
    /\ Idle
    /\ \E f \in Scalars :
        \E r \in div_(vkind, components, f, asserts) :
            VectorBecomes(components, written,
                [name |-> "/", pre |-> components, f |-> f, outcome |-> r.outcome,
                 ret |-> r.components])

\* v.normalize()
VectorNormalize ==
    /\ Idle
    /\ \E r \in normalize_(vkind, components, asserts) :
        VectorBecomes(r.components, r.components,
            [name |-> "normalize", pre |-> components, outcome |-> r.outcome,
             dbz |-> r.dbz])

\* v.getNormalization() : the receiver is left alone.
VectorGetNormalization ==
    /\ Idle
    /\ \E r \in getNormalization_(vkind, components, asserts) :
        VectorBecomes(components, written,
            [name |-> "getNormalization", pre |-> components, outcome |-> r.outcome,
             dbz |-> r.dbz, ret |-> r.components])

\* v.getLength()
VectorGetLength ==
    /\ Idle
    /\ VectorBecomes(components, written,
            [name |-> "getLength", pre |-> components,
             ret |-> getLength_(vkind, components)])

\* The components a vector of the model can hold.
InRange(w) == \A i \in 1..Len(w) : w[i] \in Scalars

\* v.project(vec), for the results that the scalars of the model can hold.
VectorProject ==
    /\ Idle
    /\ \E vec \in VectorsOf(vkind) :
        \E r \in project_(vkind, components, vec, asserts) :
            /\ InRange(r.components)
            /\ VectorBecomes(r.components, r.components,
                [name |-> "project", pre |-> components, vec |-> vec,
                 outcome |-> r.outcome, dbz |-> r.dbz])

\* v.getProjection(vec) : the receiver is left alone.
VectorGetProjection ==
    /\ Idle
    /\ \E vec \in VectorsOf(vkind) :
        \E r \in getProjection_(vkind, components, vec, asserts) :
            VectorBecomes(components, written,
                [name |-> "getProjection", pre |-> components, vec |-> vec,
                 outcome |-> r.outcome, dbz |-> r.dbz, ret |-> r.components])

\* v.getScalarProjection(vec)
VectorGetScalarProjection ==
    /\ Idle
    /\ \E vec \in VectorsOf(vkind) :
        \E r \in getScalarProjection_(vkind, components, vec, asserts) :
            VectorBecomes(components, written,
                [name |-> "getScalarProjection", pre |-> components, vec |-> vec,
                 outcome |-> r.outcome, dbz |-> r.dbz, ret |-> r.value])

\* v.cross(vec), for the classes of three components.
VectorCross ==
    /\ Idle
    /\ vkind \in {"Vector", "Vector3"}
    /\ \E vec \in VectorsOf(vkind) :
        VectorBecomes(components, written,
            [name |-> "cross", pre |-> components, vec |-> vec,
             ret |-> cross_(vkind, components, vec)])

\* v.getLeftHandNormal() and v.getRightHandNormal(), Vector2 only.
VectorGetNormals ==
    /\ Idle
    /\ vkind \in {"Vector2", "Vector2_earlier"}
    /\ VectorBecomes(components, written,
            [name |-> "getNormals", pre |-> components,
             left |-> Vector2_getLeftHandNormal(components),
             right |-> Vector2_getRightHandNormal(components)])

\* Vector<T,N> instantiated with a dimension N: the compiler evaluates the
\* static assertion of the class.
VectorInstantiate ==
    /\ Idle
    /\ vkind = "Vector"
    /\ \E N \in 0..MaxIndex :
        VectorBecomes(components, written,
            [name |-> "Vector<T,N>", N |-> N, accepted |-> Vector_static_assert(N)])

\* The angles of a rotation, in quarter turns: the angles at which std::cos
\* and std::sin are whole numbers.
MaxAngle == 3
Angles == 0..MaxAngle

\* std::cos and std::sin of a number of quarter turns
Cos(angle) == CASE angle % 4 = 0 -> 1 [] angle % 4 = 2 -> -1 [] OTHER -> 0
Sin(angle) == CASE angle % 4 = 1 -> 1 [] angle % 4 = 3 -> -1 [] OTHER -> 0

\* Vector2::getRotation(angle): the receiver itself for a zero angle
Vector2_getRotation(v, angle) ==
    IF angle = 0 THEN v
    ELSE <<Cos(angle) * getX(v) - Sin(angle) * getY(v),
           Sin(angle) * getX(v) + Cos(angle) * getY(v)>>

\* Vector2::rotate(angle), written with _x stored before _y is computed
Vector2_rotate_overwriting(v, angle) ==
    IF angle = 0 THEN v
    ELSE LET t == Cos(angle) * getX(v) - Sin(angle) * getY(v)
         IN  <<t, Sin(angle) * t + Cos(angle) * getY(v)>>

\* Vector2::rotate(angle): _y is computed from the old _x, kept in t
Vector2_rotate(v, angle) ==
    IF angle = 0 THEN v
    ELSE LET t == Cos(angle) * getX(v) - Sin(angle) * getY(v)
             y == Sin(angle) * getX(v) + Cos(angle) * getY(v)
         IN  <<t, y>>

\* v.rotate(angle) of a Vector2; the model keeps the vectors whose
\* components are in range.
VectorRotate ==
    /\ Idle
    /\ vkind \in {"Vector2", "Vector2_earlier"}
    /\ \E angle \in Angles :
        /\ InRange(Vector2_rotate(components, angle))
        /\ VectorBecomes(Vector2_rotate(components, angle), Vector2_rotate(components, angle),
                [name |-> "rotate", pre |-> components, angle |-> angle,
                 outcome |-> "ok", dbz |-> FALSE])

\* v.getRotation(angle) of a Vector2
VectorGetRotation ==
    /\ Idle
    /\ vkind \in {"Vector2", "Vector2_earlier"}
    /\ \E angle \in Angles :
        VectorBecomes(components, written,
            [name |-> "getRotation", pre |-> components, angle |-> angle,
             outcome |-> "ok", dbz |-> FALSE, ret |-> Vector2_getRotation(components, angle)])

NextVector ==
    \/ VectorRotate
    \/ VectorGetRotation
    \/ VectorAssign
    \/ VectorNormalize
    \/ VectorGetNormalization
    \/ VectorGetLength
    \/ VectorProject
    \/ VectorGetProjection
    \/ VectorGetScalarProjection
    \/ VectorCross
    \/ VectorGetNormals
    \/ VectorInstantiate
    \/ VectorGet
    \/ VectorSet
    \/ VectorDivAssign
    \/ VectorDiv
    \/ Return

SpecVector == InitVector /\ [][NextVector]_vars

(***************************************************************************)
(* Rational<T>  (Mw/Math/Rational.hpp), T an integer type.                 *)
(***************************************************************************)
\* Numerators and denominators are taken from -MaxRat .. MaxRat.
MaxRat == 8

Ints == (- MaxRat)..MaxRat

Abs(x) == IF x >= 0 THEN x ELSE - x

\* a / b of two integers, b not zero: the quotient without its fraction.
IntQuotient(a, b) ==
    IF (a >= 0) = (b > 0) THEN Abs(a) \div Abs(b) ELSE - (Abs(a) \div Abs(b))

Fraction(n, d) == [numerator |-> n, denominator |-> d]

\* The receiver.
This == Fraction(numerator, denominator)

\* What a division by zero leaves in the receiver: anything.
AnyFraction == [numerator : Ints, denominator : Ints]

\* Rational::computeGcd(a, b): the loop, on the absolute values.
Rational_computeGcd(a, b) ==
    LET RECURSIVE loop(_, _)
        loop(x, y) == IF x = 0 THEN y
                      ELSE IF y = 0 THEN x
                      ELSE loop(y, x % y)
    IN  loop(Abs(a), Abs(b))

\* The first step of Rational::normalize() left out.
Rational_normalize_sign_no_flip(r) == r

\* Rational::normalize(), first step: no negative denominator.
Rational_normalize_sign(r) ==
    IF r.denominator < 0 THEN Fraction(- r.numerator, - r.denominator) ELSE r

\* Rational::normalize(), second step: reduce the fraction.
Rational_normalize_reduce(r) ==
    LET gcd == Rational_computeGcd(r.numerator, r.denominator)
    IN  IF gcd = 0 THEN AnyFraction
        ELSE {Fraction(IntQuotient(r.numerator, gcd), IntQuotient(r.denominator, gcd))}

\* Rational::normalize(): the fractions it can leave.
Rational_normalize(r) == Rational_normalize_reduce(Rational_normalize_sign(r))

\* The ways a call ends that stores one of the fractions rs.
Stored(rs) == {[outcome |-> "ok", value |-> r] : r \in rs}

\* A call that ends without storing anything in the fraction r.
Refused(r, how) == {[outcome |-> how, value |-> r]}

\* Rational(numerator, denominator): BOOST_ASSERT(denominator) is compiled
\* out by NDEBUG.
Rational_Rational(n, d, debug) ==
    IF d = 0 /\ debug THEN Refused(Fraction(0, 1), "assertion_failed")
    ELSE Stored(Rational_normalize(Fraction(n, d)))

\* Rational::set(numerator, denominator)
Rational_set(r, n, d, debug) ==
    IF d = 0 /\ debug THEN Refused(r, "assertion_failed")
    ELSE Stored(Rational_normalize(Fraction(n, d)))

\* Rational::setNumerator(numerator)
Rational_setNumerator(r, n) ==
    Stored(Rational_normalize(Fraction(n, r.denominator)))

\* Rational::setDenominator(denominator)
Rational_setDenominator(r, d, debug) ==
    IF d = 0 /\ debug THEN Refused(r, "assertion_failed")
    ELSE Stored(Rational_normalize(Fraction(r.numerator, d)))

\* Rational::operator +=  : the fractions it can leave in the receiver.
Rational_addAssign(r, rat) ==
    LET g1 == Rational_computeGcd(r.denominator, rat.denominator)
    IN  IF g1 = 1
        THEN {Fraction(r.numerator * rat.denominator + r.denominator * rat.numerator,
                       r.denominator * rat.denominator)}
        ELSE IF g1 = 0 THEN AnyFraction
        ELSE LET t == r.numerator * IntQuotient(rat.denominator, g1)
                        + IntQuotient(r.denominator, g1) * rat.numerator
                 g2 == Rational_computeGcd(t, g1)
             IN  {Fraction(IntQuotient(t, g2),
                           IntQuotient(r.denominator, g1) * IntQuotient(rat.denominator, g2))}

\* Rational::operator -= adding instead of subtracting.
Rational_subAssign_adding(r, rat) == Rational_addAssign(r, rat)

\* Rational::operator -=
Rational_subAssign(r, rat) ==
    LET g1 == Rational_computeGcd(r.denominator, rat.denominator)
    IN  IF g1 = 1
        THEN {Fraction(r.numerator * rat.denominator - r.denominator * rat.numerator,
                       r.denominator * rat.denominator)}
        ELSE IF g1 = 0 THEN AnyFraction
        ELSE LET t == r.numerator * IntQuotient(rat.denominator, g1)
                        - IntQuotient(r.denominator, g1) * rat.numerator
                 g2 == Rational_computeGcd(t, g1)
             IN  {Fraction(IntQuotient(t, g2),
                           IntQuotient(r.denominator, g1) * IntQuotient(rat.denominator, g2))}

\* Rational::operator *= without the two reductions.
Rational_mulAssign_unreduced(r, rat) ==
    {Fraction(r.numerator * rat.numerator, r.denominator * rat.denominator)}

\* Rational::operator *=
Rational_mulAssign(r, rat) ==
    LET g1 == Rational_computeGcd(r.numerator, rat.denominator)
        g2 == Rational_computeGcd(r.denominator, rat.numerator)
    IN  IF g1 = 0 \/ g2 = 0 THEN AnyFraction
        ELSE {Fraction(IntQuotient(r.numerator, g1) * IntQuotient(rat.numerator, g2),
                       IntQuotient(r.denominator, g2) * IntQuotient(rat.denominator, g1))}

\* Rational::operator /= without the test of the divisor.
Rational_divAssign_unchecked(r, rat) ==
    LET g1 == Rational_computeGcd(r.numerator, rat.numerator)
        g2 == Rational_computeGcd(r.denominator, rat.denominator)
    IN  IF g1 = 0 \/ g2 = 0 THEN Stored(AnyFraction)
        ELSE Stored({Rational_normalize_sign(
                Fraction(IntQuotient(r.numerator, g1) * IntQuotient(rat.denominator, g2),
                         IntQuotient(r.denominator, g2) * IntQuotient(rat.numerator, g1)))})

\* Rational::operator /=  : the ways the call ends.
Rational_divAssign(r, rat) ==
    IF rat.numerator = 0 THEN Refused(r, "invalid_argument")
    ELSE LET g1 == Rational_computeGcd(r.numerator, rat.numerator)
             g2 == Rational_computeGcd(r.denominator, rat.denominator)
         IN  IF g1 = 0 \/ g2 = 0 THEN Stored(AnyFraction)
             ELSE Stored({Rational_normalize_sign(
                     Fraction(IntQuotient(r.numerator, g1) * IntQuotient(rat.denominator, g2),
                              IntQuotient(r.denominator, g2) * IntQuotient(rat.numerator, g1)))})

\* The operators +, -, * and / of boost::arithmetic: the in-place operator
\* applied to a copy of the left operand, which is returned.
Rational_operator(op, r, rat) ==
    CASE op = "+" -> Stored(Rational_addAssign(r, rat))
      [] op = "-" -> Stored(Rational_subAssign(r, rat))
      [] op = "*" -> Stored(Rational_mulAssign(r, rat))
      [] op = "/" -> Rational_divAssign(r, rat)

\* Rational::operator ==
Rational_eq(r, rat) ==
    (r.numerator = rat.numerator) /\ (r.denominator = rat.denominator)

\* Rational::operator < admitting equal products.
Rational_lt_or_equal(r, rat) ==
    r.numerator * rat.denominator <= r.denominator * rat.numerator

\* Rational::operator <
Rational_lt(r, rat) ==
    r.numerator * rat.denominator < r.denominator * rat.numerator

(***************************************************************************)
(* Rational: the state machine.                                            *)
(***************************************************************************)
\* The vector is not used by the operations of Rational; the build is a
\* Debug or a Release one.
VectorIdle ==
    /\ vkind = "Vector"
    /\ components = NullVector(2)
    /\ written = NullVector(2)

\* A program that uses a bounds, or one that uses a vector: the vector of
\* the first is the placeholder of VectorUnused, which is no vector of its
\* class.
NoVector == Len(components) # VDimOf(vkind)

InitCounterparts == Init \/ InitVector

NextCounterparts ==
    \/ NoVector /\ Next
    \/ ~NoVector /\ NextVector

SpecCounterparts == InitCounterparts /\ [][NextCounterparts]_vars

\* The plane is not used by the operations of Rational and of the Lua state.
PlaneUnused ==
    /\ normal = <<1, 0>>
    /\ origin = 0

\* The Lua state is not used by the operations of Rational and of Plane.
LuaUnused ==
    /\ state = 0
    /\ lua_closes = << >>
    /\ closed_null = FALSE
    /\ phase = "alive"
    /\ misused = FALSE
    /\ top = 0
    /\ contexts = << >>

\* A default constructed rational: 0/1.
InitRational ==
    /\ numerator = 0
    /\ denominator = 1
    /\ asserts \in BOOLEAN
    /\ call = [name |-> "Rational"]
    /\ BoundsUnused
    /\ VectorIdle
    /\ PlaneUnused
    /\ LuaUnused

\* The fractions whose terms the model can hold.
Representable(r) == r.numerator \in Ints /\ r.denominator \in Ints

\* The rationals a program can pass to an operator: those a constructor
\* call with a denominator that is not zero makes.
Rationals ==
    UNION {{x.value : x \in Rational_Rational(n, d, TRUE)} : n \in Ints, d \in Ints \ {0}}

RationalBecomes(r, c) ==
    /\ Representable(r)
    /\ numerator' = r.numerator
    /\ denominator' = r.denominator
    /\ call' = c
    /\ UNCHANGED <<boundsVars, vectorVars, planeVars, luaVars>>

\* Rational<T> r(n, d): the receiver is constructed anew; no object is made
\* when the assertion stops the program.
RationalConstruct ==
    /\ Idle
    /\ \E n \in Ints, d \in Ints :
        \E x \in Rational_Rational(n, d, asserts) :
            RationalBecomes(IF x.outcome = "ok" THEN x.value ELSE This,
                [name |-> "Rational2", pre |-> This, n |-> n, d |-> d,
                 outcome |-> x.outcome])

\* r.set(n, d)
RationalSet ==
    /\ Idle
    /\ \E n \in Ints, d \in Ints :
        \E x \in Rational_set(This, n, d, asserts) :
            RationalBecomes(x.value,
                [name |-> "set", pre |-> This, n |-> n, d |-> d, outcome |-> x.outcome])

\* r.setNumerator(n)
RationalSetNumerator ==
    /\ Idle
    /\ \E n \in Ints :
        \E x \in Rational_setNumerator(This, n) :
            RationalBecomes(x.value,
                [name |-> "setNumerator", pre |-> This, n |-> n, d |-> denominator,
                 outcome |-> x.outcome])

\* r.setDenominator(d)
RationalSetDenominator ==
    /\ Idle
    /\ \E d \in Ints :
        \E x \in Rational_setDenominator(This, d, asserts) :
            RationalBecomes(x.value,
                [name |-> "setDenominator", pre |-> This, n |-> numerator, d |-> d,
                 outcome |-> x.outcome])

\* r += rat
RationalAddAssign ==
    /\ Idle
    /\ \E rat \in Rationals :
        \E x \in Stored(Rational_addAssign(This, rat)) :
            RationalBecomes(x.value,
                [name |-> "+=", pre |-> This, rat |-> rat, outcome |-> x.outcome])

\* r -= rat
RationalSubAssign ==
    /\ Idle
    /\ \E rat \in Rationals :
        \E x \in Stored(Rational_subAssign(This, rat)) :
            RationalBecomes(x.value,
                [name |-> "-=", pre |-> This, rat |-> rat, outcome |-> x.outcome])

\* r *= rat
RationalMulAssign ==
    /\ Idle
    /\ \E rat \in Rationals :
        \E x \in Stored(Rational_mulAssign(This, rat)) :
            RationalBecomes(x.value,
                [name |-> "*=", pre |-> This, rat |-> rat, outcome |-> x.outcome])

\* r /= rat
RationalDivAssign ==
    /\ Idle
    /\ \E rat \in Rationals :
        \E x \in Rational_divAssign(This, rat) :
            RationalBecomes(x.value,
                [name |-> "/=", pre |-> This, rat |-> rat, outcome |-> x.outcome])

\* r + rat, r - rat, r * rat, r / rat : the receiver is left alone.
RationalOperator ==
    /\ Idle
    /\ \E op \in {"+", "-", "*", "/"}, rat \in Rationals :
        \E x \in Rational_operator(op, This, rat) :
            /\ Representable(x.value)
            /\ RationalBecomes(This,
                [name |-> op, pre |-> This, rat |-> rat, outcome |-> x.outcome,
                 ret |-> x.value])

\* r < rat, rat < r, r == rat and the operators boost::totally_ordered
\* derives from them: r <= rat is !(rat < r), r >= rat is !(r < rat).
RationalCompare ==
    /\ Idle
    /\ \E rat \in Rationals :
        RationalBecomes(This,
            [name |-> "compare", pre |-> This, rat |-> rat,
             lt |-> Rational_lt(This, rat), gt |-> Rational_lt(rat, This),
             eq |-> Rational_eq(This, rat),
             le |-> ~Rational_lt(rat, This), ge |-> ~Rational_lt(This, rat)])

NextRational ==
    \/ RationalConstruct
    \/ RationalSet
    \/ RationalSetNumerator
    \/ RationalSetDenominator
    \/ RationalAddAssign
    \/ RationalSubAssign
    \/ RationalMulAssign
    \/ RationalDivAssign
    \/ RationalOperator
    \/ RationalCompare
    \/ Return

SpecRational == InitRational /\ [][NextRational]_vars

(***************************************************************************)
(* Plane<T, V> (Plane2 over Vector2, Plane3 over Vector3): a normalized    *)
(* normal and the distance of the plane from the origin along it.  vkind   *)
(* is the class of V, asserts the build.                                   *)
(***************************************************************************)
PlaneKinds == {"Vector2", "Vector3"}

\* operator -= of Vector2 and Vector3, of which boost::additive makes a - b
Vector_subAssign(v, vec) == [i \in 1..Len(v) |-> v[i] - vec[i]]

\* Plane(normal, point) and set(normal, point): the ways the two
\* initialisations end.  The normal is normalized, then the point is
\* projected on the stored normal; an assertion that fails in either stops
\* the program, a division by zero leaves whatever it produced.
Plane_set(k, n, point, debug) ==
    UNION {IF r.outcome # "ok"
           THEN {[outcome |-> r.outcome, dbz |-> r.dbz, normal |-> n, origin |-> 0]}
           ELSE {[outcome |-> s.outcome, dbz |-> r.dbz \/ s.dbz,
                  normal |-> r.components, origin |-> s.value]
                   : s \in getScalarProjection_(k, point, r.components, debug)}
             : r \in getNormalization_(k, n, debug)}

\* Plane::isOn(point): the ways the call ends
Plane_isOn(k, n, o, point, debug) ==
    {[outcome |-> r.outcome, dbz |-> r.dbz, value |-> r.value = o]
        : r \in getScalarProjection_(k, point, n, debug)}

\* Plane::isOver(point)
Plane_isOver(k, n, o, point, debug) ==
    {[outcome |-> r.outcome, dbz |-> r.dbz, value |-> r.value > o]
        : r \in getScalarProjection_(k, point, n, debug)}

\* Plane::isUnder(point)
Plane_isUnder(k, n, o, point, debug) ==
    {[outcome |-> r.outcome, dbz |-> r.dbz, value |-> r.value < o]
        : r \in getScalarProjection_(k, point, n, debug)}

\* Plane::getDistance(point), written with the comparison turned round
Plane_getDistance_signed(k, n, o, point, debug) ==
    {[outcome |-> r.outcome, dbz |-> r.dbz,
      value |-> IF r.value < o THEN r.value - o ELSE o - r.value]
        : r \in getScalarProjection_(k, point, n, debug)}

\* Plane::getDistance(point)
Plane_getDistance(k, n, o, point, debug) ==
    {[outcome |-> r.outcome, dbz |-> r.dbz,
      value |-> IF r.value > o THEN r.value - o ELSE o - r.value]
        : r \in getScalarProjection_(k, point, n, debug)}

\* Plane::getProjection(point): point - _normal * d, d the scalar projection
\* of the point on the normal
Plane_getProjection(k, n, o, point, debug) ==
    {[outcome |-> r.outcome, dbz |-> r.dbz,
      components |-> IF r.outcome = "ok"
                     THEN Vector_subAssign(point, Scaled(n, r.value))
                     ELSE point]
        : r \in getScalarProjection_(k, point, n, debug)}

\* A plane made by Plane(normal, point).
InitPlane ==
    /\ vkind \in PlaneKinds
    /\ asserts \in BOOLEAN
    /\ \E n \in VectorsOf(vkind) :
        \E r \in Plane_set(vkind, n, NullVector(VDimOf(vkind)), asserts) :
            /\ r.outcome = "ok"
            /\ normal = r.normal
            /\ origin = r.origin
    /\ components = NullVector(2)
    /\ written = NullVector(2)
    /\ call = [name |-> "none"]
    /\ BoundsUnused
    /\ numerator = 0
    /\ denominator = 1
    /\ LuaUnused

PlaneBecomes(n, o, c) ==
    /\ normal' = n
    /\ origin' = o
    /\ call' = c
    /\ UNCHANGED <<boundsVars, vectorVars, rationalVars, luaVars>>

\* plane.set(normal, point), and Plane(normal, point) making the plane anew;
\* the plane is as it was when the call does not end well.
PlaneSet ==
    /\ Idle
    /\ \E n \in VectorsOf(vkind), point \in VectorsOf(vkind) :
        \E r \in Plane_set(vkind, n, point, asserts) :
            PlaneBecomes(IF r.outcome = "ok" THEN r.normal ELSE normal,
                         IF r.outcome = "ok" THEN r.origin ELSE origin,
                         [name |-> "set", arg |-> n, point |-> point,
                          outcome |-> r.outcome, dbz |-> r.dbz])

\* isOn, isOver, isUnder and getDistance of one point, called in a row.
PlaneClassify ==
    /\ Idle
    /\ \E point \in VectorsOf(vkind) :
        \E on \in Plane_isOn(vkind, normal, origin, point, asserts),
           over \in Plane_isOver(vkind, normal, origin, point, asserts),
           under \in Plane_isUnder(vkind, normal, origin, point, asserts),
           d \in Plane_getDistance(vkind, normal, origin, point, asserts) :
            PlaneBecomes(normal, origin,
                [name |-> "classify", point |-> point,
                 outcome |-> IF {on.outcome, over.outcome, under.outcome, d.outcome} = {"ok"}
                             THEN "ok" ELSE "assertion_failed",
                 dbz |-> on.dbz \/ over.dbz \/ under.dbz \/ d.dbz,
                 isOn |-> on.value, isOver |-> over.value, isUnder |-> under.value,
                 getDistance |-> d.value])

\* plane.getProjection(point)
PlaneGetProjection ==
    /\ Idle
    /\ \E point \in VectorsOf(vkind) :
        \E r \in Plane_getProjection(vkind, normal, origin, point, asserts) :
            PlaneBecomes(normal, origin,
                [name |-> "getProjection", point |-> point,
                 outcome |-> r.outcome, dbz |-> r.dbz, ret |-> r.components])

NextPlane ==
    \/ PlaneSet
    \/ PlaneClassify
    \/ PlaneGetProjection
    \/ Return

SpecPlane == InitPlane /\ [][NextPlane]_vars

(***************************************************************************)
(* Lua::State, the owner of one lua_State, with the StackContext and       *)
(* GlobalContext objects working on its stack.  A lua_State is the number  *)
(* lua_newstate gave it, NULL is 0; lua_closes counts the calls of         *)
(* lua_close on each.  The Lua library is outside the repository: a        *)
(* lua_newstate call succeeds or fails, lua_settop sets the top, a push    *)
(* raises it by one and lua_pop(n) lowers it by n.                         *)
(***************************************************************************)
MaxStates == 2
MaxTop == 2
MaxDepth == 2

\* State::isOpen(): return _state
State_isOpen(s) == s # 0

\* State::isClosed(): return !_state
State_isClosed(s) == ~(s # 0)

\* State::open(): fresh is what lua_newstate returns.  The new _state and
\* the way the call ends.
State_open(s, fresh, debug) ==
    IF debug /\ ~State_isClosed(s) THEN [outcome |-> "assertion_failed", state |-> s]
    ELSE [outcome |-> IF fresh = 0 THEN "runtime_error" ELSE "ok", state |-> fresh]

\* State::close(), written without _state = NULL
State_close_keeping(s, debug) ==
    IF debug /\ ~State_isOpen(s)
    THEN [outcome |-> "assertion_failed", state |-> s, lua_close |-> << >>]
    ELSE [outcome |-> "ok", state |-> s, lua_close |-> <<s>>]

\* State::close(): the new _state and the pointers given to lua_close
State_close(s, debug) ==
    IF debug /\ ~State_isOpen(s)
    THEN [outcome |-> "assertion_failed", state |-> s, lua_close |-> << >>]
    ELSE [outcome |-> "ok", state |-> 0, lua_close |-> <<s>>]

\* State::~State(), written without the close
State_destroy_forgetting(s, debug) ==
    [outcome |-> "ok", state |-> s, lua_close |-> << >>]

\* State::~State(): if (isOpen()) close()
State_destroy(s, debug) ==
    IF State_isOpen(s) THEN State_close(s, debug)
    ELSE [outcome |-> "ok", state |-> s, lua_close |-> << >>]

\* lua_close(p) for every p of ps, in the count of closes of each lua_State
Closed(closes, ps) ==
    [i \in 1..Len(closes) |->
        closes[i] + Cardinality({j \in 1..Len(ps) : ps[j] = i})]

\* StackContext(State &): the pointer and the top of its stack are recorded.
\* On a closed State the assertion fails; without it lua_gettop reads
\* through NULL, and the program stops or goes on with whatever it read.
StackContext_StackContext(s, t, debug) ==
    IF State_isOpen(s) THEN {[outcome |-> "ok", state |-> s, top |-> t]}
    ELSE IF debug THEN {[outcome |-> "assertion_failed", state |-> s, top |-> 0]}
    ELSE {[outcome |-> "crashed", state |-> s, top |-> 0]}
            \cup {[outcome |-> "undefined", state |-> s, top |-> u] : u \in 0..MaxTop}

\* StackContext::clean(), written to lower the top only
StackContext_clean_lowering(c, t) == IF t > c.top THEN c.top ELSE t

\* StackContext::clean(): lua_settop(_state, _top); the new top of the stack
StackContext_clean(c, t) == c.top

\* GlobalContext::push...(): one value more on the stack
GlobalContext_push(t) == t + 1

\* GlobalContext::pop(n): lua_pop(_state, n)
GlobalContext_pop(t, n) == t - n

\* A State just constructed: closed, no lua_State made yet.
InitLua ==
    /\ state = 0
    /\ lua_closes = << >>
    /\ closed_null = FALSE
    /\ phase = "alive"
    /\ misused = FALSE
    /\ top = 0
    /\ contexts = << >>
    /\ asserts \in BOOLEAN
    /\ call = [name |-> "State"]
    /\ BoundsUnused
    /\ VectorIdle
    /\ numerator = 0
    /\ denominator = 1
    /\ PlaneUnused

Alive == Idle /\ phase = "alive"

\* The way a call that gave ps to lua_close ends: a failed assertion stops
\* the program, and so may lua_close(NULL).
Phases(outcome, ps) ==
    IF outcome \in {"assertion_failed", "crashed"} THEN {"aborted"}
    ELSE IF \E j \in 1..Len(ps) : ps[j] = 0 THEN {"aborted", "alive"}
    ELSE {"alive"}

\* state.open()
LuaOpen ==
    /\ Alive
    /\ \E fresh \in {0} \cup (IF Len(lua_closes) < MaxStates THEN {Len(lua_closes) + 1} ELSE {}) :
        LET r == State_open(state, fresh, asserts)
            made == r.outcome = "ok"
        IN  /\ state' = r.state
            /\ lua_closes' = IF made THEN Append(lua_closes, 0) ELSE lua_closes
            /\ top' = IF made THEN 0 ELSE top
            /\ misused' = (misused \/ ~State_isClosed(state))
            /\ phase' \in Phases(r.outcome, << >>)
            /\ call' = [name |-> "open", pre |-> state, outcome |-> r.outcome]
            /\ UNCHANGED <<closed_null, contexts>>
    /\ UNCHANGED <<boundsVars, vectorVars, rationalVars, planeVars>>

\* state.close()
LuaClose ==
    /\ Alive
    /\ LET r == State_close(state, asserts)
       IN  /\ state' = r.state
           /\ lua_closes' = Closed(lua_closes, r.lua_close)
           /\ closed_null' = (closed_null \/ \E j \in 1..Len(r.lua_close) : r.lua_close[j] = 0)
           /\ misused' = (misused \/ ~State_isOpen(state))
           /\ phase' \in Phases(r.outcome, r.lua_close)
           /\ call' = [name |-> "close", pre |-> state, outcome |-> r.outcome]
           /\ UNCHANGED <<top, contexts>>
    /\ UNCHANGED <<boundsVars, vectorVars, rationalVars, planeVars>>

\* The State goes out of scope.
LuaDestroy ==
    /\ Alive
    /\ LET r == State_destroy(state, asserts)
       IN  /\ state' = r.state
           /\ lua_closes' = Closed(lua_closes, r.lua_close)
           /\ phase' = "destroyed"
           /\ call' = [name |-> "~State", pre |-> state, outcome |-> r.outcome]
           /\ UNCHANGED <<closed_null, misused, top, contexts>>
    /\ UNCHANGED <<boundsVars, vectorVars, rationalVars, planeVars>>

\* StackContext context(state)
ContextConstruct ==
    /\ Alive
    /\ Len(contexts) < MaxDepth
    /\ \E r \in StackContext_StackContext(state, top, asserts) :
        /\ contexts' = IF r.outcome \in {"ok", "undefined"}
                       THEN Append(contexts, [state |-> r.state, top |-> r.top])
                       ELSE contexts
        /\ misused' = (misused \/ r.outcome # "ok")
        /\ phase' \in Phases(r.outcome, << >>)
        /\ call' = [name |-> "StackContext", pre |-> top, outcome |-> r.outcome]
        /\ UNCHANGED <<state, lua_closes, closed_null, top>>
    /\ UNCHANGED <<boundsVars, vectorVars, rationalVars, planeVars>>

\* A push of GlobalContext on the open State.
LuaPush ==
    /\ Alive
    /\ State_isOpen(state)
    /\ top < MaxTop
    /\ top' = GlobalContext_push(top)
    /\ call' = [name |-> "push", pre |-> top, outcome |-> "ok"]
    /\ UNCHANGED <<state, lua_closes, closed_null, phase, misused, contexts>>
    /\ UNCHANGED <<boundsVars, vectorVars, rationalVars, planeVars>>

\* pop(n) of GlobalContext on the open State, of values that are there.
LuaPop ==
    /\ Alive
    /\ State_isOpen(state)
    /\ \E n \in 1..top :
        /\ top' = GlobalContext_pop(top, n)
        /\ call' = [name |-> "pop", pre |-> top, n |-> n, outcome |-> "ok"]
    /\ UNCHANGED <<state, lua_closes, closed_null, phase, misused, contexts>>
    /\ UNCHANGED <<boundsVars, vectorVars, rationalVars, planeVars>>

\* The lua_State of the context is the one the State holds open.
OnOpenState(c) == State_isOpen(state) /\ c.state = state

\* The stack after lua_settop of a context: set as recorded on the open
\* lua_State; on a closed one or on NULL the call reads freed or no memory,
\* and the program stops or goes on with the stack it has.
Cleaned(c, name) ==
    IF OnOpenState(c)
    THEN /\ top' = StackContext_clean(c, top)
         /\ call' = [name |-> name, pre |-> top, context |-> c, outcome |-> "ok"]
         /\ UNCHANGED <<phase, misused>>
    ELSE /\ top' = top
         /\ phase' \in {"aborted", "alive"}
         /\ misused' = TRUE
         /\ call' = [name |-> name, pre |-> top, context |-> c, outcome |-> "undefined"]

\* context.clean(), of any context alive
ContextClean ==
    /\ Alive
    /\ \E i \in 1..Len(contexts) : Cleaned(contexts[i], "clean")
    /\ UNCHANGED <<state, lua_closes, closed_null, contexts>>
    /\ UNCHANGED <<boundsVars, vectorVars, rationalVars, planeVars>>

\* The innermost context goes out of scope: ~StackContext() cleans.
ContextDestroy ==
    /\ Alive
    /\ contexts # << >>
    /\ Cleaned(contexts[Len(contexts)], "~StackContext")
    /\ contexts' = SubSeq(contexts, 1, Len(contexts) - 1)
    /\ UNCHANGED <<state, lua_closes, closed_null>>
    /\ UNCHANGED <<boundsVars, vectorVars, rationalVars, planeVars>>

NextLua ==
    \/ LuaOpen
    \/ LuaClose
    \/ LuaDestroy
    \/ ContextConstruct
    \/ LuaPush
    \/ LuaPop
    \/ ContextClean
    \/ ContextDestroy
    \/ Return

SpecLua == InitLua /\ [][NextLua]_vars

(***************************************************************************)
(* Properties of Bounds, checked under Spec.                               *)
(***************************************************************************)
Max2(a, b) == IF a >= b THEN a ELSE b
Min2(a, b) == IF a <= b THEN a ELSE b

Axes == 1..DimOf(kind)

\* The last call reset the receiver from two points.
WasSet == call.name \in {"set", "Bounds2p"}

\* C1: after set(first, second) the upper limit is, on every axis, the larger
\* and the lower limit the smaller of the two coordinates given, whatever
\* the limits were before.
C1_SetStoresMaxMin ==
    WasSet =>
        \A i \in Axes :
            /\ upper_limit[i] = Max2(call.first[i], call.second[i])
            /\ lower_limit[i] = Min2(call.first[i], call.second[i])

\* set with corners mixed on the two axes, on a bounds that had other limits.
C1_Witness ==
    /\ kind = "Bounds"
    /\ call.name = "set"
    /\ call.pre = [upper |-> <<1, 1>>, lower |-> <<1, 2>>]
    /\ call.first = <<0, 2>>
    /\ call.second = <<2, 0>>
    /\ upper_limit = <<2, 2>>
    /\ lower_limit = <<0, 0>>

\* C2: set(p1, p2) leaves the limits that set(p2, p1) would have left from
\* the same prior state.
C2_SetOrderIndependent ==
    WasSet => Self = set_(kind, call.pre, call.second, call.first)

\* set from two different points, the first one larger on x and smaller on y.
C2_Witness ==
    /\ kind = "Bounds2"
    /\ call.name = "set"
    /\ call.first[1] > call.second[1]
    /\ call.first[2] < call.second[2]
    /\ call.pre # Self

\* Some axis has its upper limit at or below its lower limit.
SomeAxisCollapsed(b) == \E i \in Axes : b.upper[i] <= b.lower[i]

\* C3: isEmpty() is true exactly when some axis has upper <= lower; a default
\* constructed bounds and a bounds set from two equal points are empty, a
\* bounds set from two points that differ on every axis is not.
C3_IsEmptyIffAxisCollapsed ==
    /\ isEmpty_(kind, Self) <=> SomeAxisCollapsed(Self)
    /\ call.name = "isEmpty" => (call.ret <=> SomeAxisCollapsed(call.pre))
    /\ call.name = "Bounds" => isEmpty_(kind, Self)
    /\ (WasSet /\ call.first = call.second) => isEmpty_(kind, Self)
    /\ (WasSet /\ \A i \in Axes : call.first[i] # call.second[i]) => ~isEmpty_(kind, Self)

\* isEmpty() answered true for a bounds that is collapsed on its last axis only.
C3_Witness ==
    /\ kind = "Bounds"
    /\ call.name = "isEmpty"
    /\ call.ret = TRUE
    /\ upper_limit[1] > lower_limit[1]
    /\ upper_limit[2] = lower_limit[2]

\* C4: after include(p) the containment test of p is true.
C4_IncludedPointIsInside ==
    call.name = "include" => hasPointInside_(kind, Self, call.vec)

\* include of a point that was outside on both sides of the bounds.
C4_Witness ==
    /\ kind = "Bounds"
    /\ call.name = "include"
    /\ ~hasPointInside_(kind, call.pre, call.vec)
    /\ call.vec[1] > call.pre.upper[1]
    /\ call.vec[2] < call.pre.lower[2]

\* C5: include never shrinks: no upper limit decreases, no lower limit
\* increases, and every point that was inside is still inside.
C5_IncludeNeverShrinks ==
    call.name \in {"include", "includeBounds"} =>
        /\ \A i \in Axes :
            /\ upper_limit[i] >= call.pre.upper[i]
            /\ lower_limit[i] <= call.pre.lower[i]
        /\ \A p \in PointsOf(kind) :
            hasPointInside_(kind, call.pre, p) => hasPointInside_(kind, Self, p)

\* include of a point below the upper limit, into a bounds that is not empty
\* and that the call has grown.
C5_Witness ==
    /\ kind = "Bounds"
    /\ call.name = "include"
    /\ ~isEmpty_(kind, call.pre)
    /\ call.vec[1] < call.pre.upper[1]
    /\ Self # call.pre

\* C6: intersect(other) sets, on every axis, upper = min(upper, other.upper)
\* and lower = max(lower, other.lower); the receiver is empty when the two
\* boxes do not overlap on some axis.
C6_IntersectEveryAxis ==
    call.name = "intersect" =>
        /\ \A i \in Axes :
            /\ upper_limit[i] = Min2(call.pre.upper[i], call.bounds.upper[i])
            /\ lower_limit[i] = Max2(call.pre.lower[i], call.bounds.lower[i])
        /\ (\E i \in Axes : Min2(call.pre.upper[i], call.bounds.upper[i])
                              <= Max2(call.pre.lower[i], call.bounds.lower[i]))
               => isEmpty_(kind, Self)

\* C7: b.intersect(b) leaves the limits of b as they were, and
\* b.getIntersection(b) has the limits of b.
C7_SelfIntersectionNoOp ==
    /\ (call.name = "intersect" /\ call.aliased) => Self = call.pre
    /\ (call.name = "getIntersection" /\ call.bounds = call.pre) => call.ret = call.pre

\* b.intersect(b) on a bounds that is not empty.
C7_Witness ==
    /\ kind = "Bounds"
    /\ call.name = "intersect"
    /\ call.aliased
    /\ ~isEmpty_(kind, call.pre)
    /\ call.pre.upper # call.pre.lower

\* C8: hasBoundsInside(other) is true exactly when, on every axis, the other
\* upper limit is at most the upper limit and the other lower limit at least
\* the lower limit.
C8_HasBoundsInsideInclusive ==
    call.name = "hasBoundsInside" =>
        (call.ret <=> \A i \in Axes :
                          /\ call.bounds.upper[i] <= call.pre.upper[i]
                          /\ call.bounds.lower[i] >= call.pre.lower[i])

(***************************************************************************)
(* Properties of the vectors, checked under SpecVector.                    *)
(***************************************************************************)
\* C9: get(i) and set(i, v) fail with out_of_range for every i >= N and leave
\* the vector alone; for i < N, get(i) returns the value last written to
\* component i and set(i, v) stores v in component i and changes no other.
C9_IndexedAccess ==
    /\ (call.name \in {"get", "set"} /\ call.index >= VDimOf(vkind)) =>
           /\ call.outcome = "out_of_range"
           /\ components = call.pre
    /\ (call.name = "get" /\ call.index < VDimOf(vkind)) =>
           /\ call.outcome = "ok"
           /\ call.ret = written[call.index + 1]
           /\ components = call.pre
    /\ (call.name = "set" /\ call.index < VDimOf(vkind)) =>
           /\ call.outcome = "ok"
           /\ components[call.index + 1] = call.value
           /\ \A j \in 1..VDimOf(vkind) :
                  j # call.index + 1 => components[j] = call.pre[j]

\* get(1) returns a value that only set(1, v) can have stored.
C9_Witness ==
    /\ vkind = "Vector"
    /\ call.name = "get"
    /\ call.index = 1
    /\ call.outcome = "ok"
    /\ call.ret = 2
    /\ components = <<0, 2, 1>>

\* Errors that reject an argument outside the domain of the operation.
DomainErrors == {"domain_error", "invalid_argument"}

\* C10: a division of a vector by zero, by /= or by /, fails with a domain
\* error in every vector class, and produces no vector.
C10_DivisionByZeroFails ==
    (call.name \in {"/=", "/"} /\ call.f = 0) => call.outcome \in DomainErrors

\* C11: normalize() and getNormalization() of the null vector fail with a
\* domain error in every vector class, and no call of them returns or stores
\* a vector computed by a division by a zero length.
C11_NormalizeNullFails ==
    call.name \in {"normalize", "getNormalization"} =>
        /\ isNull_(vkind, call.pre) => call.outcome \in DomainErrors
        /\ ~call.dbz

\* The calls that project the receiver onto the vector given.
Projections == {"project", "getProjection", "getScalarProjection"}

\* C12: project, getProjection and getScalarProjection fail whenever the
\* vector given is null, and none of them divides by a zero squared length.
C12_ProjectOntoNullFails ==
    call.name \in Projections =>
        /\ isNull_(vkind, call.vec) => call.outcome # "ok"
        /\ ~call.dbz

\* The sum of the squares of the components.
RECURSIVE SumOfSquares_from(_, _)
SumOfSquares_from(v, i) ==
    IF i > Len(v) THEN 0 ELSE v[i] * v[i] + SumOfSquares_from(v, i + 1)

SumOfSquares(v) == SumOfSquares_from(v, 1)

\* r is the root of s in the scalar type: the root itself when s is a square.
IsRootOf(r, s) == r >= 0 /\ r * r <= s /\ s < (r + 1) * (r + 1)

\* C14: getLength() returns the Euclidean norm, the root of the sum of the
\* squares of the components, in every vector class; the length of the null
\* vector is 0.
C14_GetLengthEuclidean ==
    call.name = "getLength" =>
        /\ IsRootOf(call.ret, SumOfSquares(call.pre))
        /\ isNull_(vkind, call.pre) => call.ret = 0

\* The squared length has a root in the scalar type.
HasExactLength(v) == \E r \in 0..SumOfSquares(v) : r * r = SumOfSquares(v)

\* dot(a, b) / (sum of the squared components of b), times b.
ProjectionOf(a, b) ==
    Scaled(b, Quotient(Vector_dot(a, b), SumOfSquares(b)))

\* C15: for b not null, a.getProjection(b) is k * b with
\* k = dot(a, b) / (sum of the squared components of b), whenever the length
\* of b is exact in the scalar type; the result is parallel to b, and
\* project(b) stores what getProjection(b) returns.
C15_ProjectionFormula ==
    /\ (call.name \in {"project", "getProjection"} /\ ~isNull_(vkind, call.vec)) =>
           LET p == IF call.name = "project" THEN components ELSE call.ret
           IN  /\ call.outcome = "ok"
               /\ HasExactLength(call.vec) => p = ProjectionOf(call.pre, call.vec)
               /\ \A i \in 1..Len(p), j \in 1..Len(p) :
                      p[i] * call.vec[j] = p[j] * call.vec[i]
    /\ call.name = "project" =>
           \E r \in getProjection_(vkind, call.pre, call.vec, asserts) :
               r.outcome = call.outcome /\ (r.outcome = "ok" => r.components = components)

\* C16: a.cross(b) is (ay*bz - az*by, az*bx - ax*bz, ax*by - ay*bx), and it
\* is the negation of b.cross(a).
C16_CrossProduct ==
    call.name = "cross" =>
        LET a == call.pre
            b == call.vec
        IN  /\ call.ret = << a[2] * b[3] - a[3] * b[2],
                             a[3] * b[1] - a[1] * b[3],
                             a[1] * b[2] - a[2] * b[1] >>
            /\ call.ret = neg_(vkind, cross_(vkind, b, a))

\* The cross product of two vectors that has no component equal to zero.
C16_Witness ==
    /\ vkind = "Vector3"
    /\ call.name = "cross"
    /\ call.pre = <<1, 2, 0>>
    /\ call.vec = <<0, 1, 2>>
    /\ call.ret = <<4, -2, 1>>

\* C17: for v = (x, y), getRightHandNormal() is (-y, x) and
\* getLeftHandNormal() is (y, -x); both are perpendicular to v, have the
\* squared length of v, and each is the negation of the other.
C17_Normals ==
    call.name = "getNormals" =>
        LET v == call.pre
        IN  /\ call.right = << - v[2], v[1] >>
            /\ call.left = << v[2], - v[1] >>
            /\ Vector2_dot(call.right, v) = 0
            /\ Vector2_dot(call.left, v) = 0
            /\ SumOfSquares(call.right) = SumOfSquares(v)
            /\ SumOfSquares(call.left) = SumOfSquares(v)
            /\ call.right = Vector2_neg(call.left)
            /\ call.left = Vector2_neg(call.right)

\* The normals of (1, 2), as in the test of Vector2.
C17_Witness ==
    /\ vkind = "Vector2"
    /\ call.name = "getNormals"
    /\ call.pre = <<1, 2>>
    /\ call.right = <<-2, 1>>
    /\ call.left = <<2, -1>>

\* C18: the dimension check of Vector<T,N> rejects N = 0 and accepts every
\* N >= 1, in particular 2, 3 and 4.
C18_DimensionStrictlyPositive ==
    call.name = "Vector<T,N>" => (call.accepted <=> call.N >= 1)

(***************************************************************************)
(* Properties of Rational, checked under SpecRational.                     *)
(***************************************************************************)
\* g divides x.
Divides(g, x) == x % g = 0

\* Lowest terms with a strictly positive denominator; zero is then 0/1.
IsNormalized(r) ==
    /\ r.denominator > 0
    /\ \A g \in 2..r.denominator : ~(Divides(g, r.numerator) /\ Divides(g, r.denominator))

\* Two fractions of denominators that are not zero have the same value.
SameValue(r, n, d) == r.numerator * d = n * r.denominator

\* The calls that write a fraction n/d to the receiver.
Setters == {"Rational2", "set", "setNumerator", "setDenominator"}

\* C19: after Rational(n, d), set(n, d), setNumerator(n) or setDenominator(d)
\* with a denominator that is not zero, the receiver is in lowest terms with
\* a strictly positive denominator (zero is 0/1) and has the value of the
\* fraction written.
C19_SettersNormalize ==
    (call.name \in Setters /\ call.d # 0) =>
        /\ call.outcome = "ok"
        /\ IsNormalized(This)
        /\ SameValue(This, call.n, call.d)
        /\ numerator = 0 => denominator = 1

\* Rational(4, -3) is stored as -4/3.
C19_Witness ==
    /\ call.name = "Rational2"
    /\ call.n = 4
    /\ call.d = -3
    /\ numerator = -4
    /\ denominator = 3

\* The in-place arithmetic operators of Rational.
Arithmetic == {"+=", "-=", "*=", "/="}

VectorPreconditionFailed ==
    \/ call.name = "set" /\ "index" \in DOMAIN call /\ call.index >= VDimOf(vkind)
    \/ call.name = "/=" /\ "f" \in DOMAIN call /\ call.f = 0
    \/ call.name = "normalize" /\ isNull_(vkind, call.pre)
    \/ call.name = "project" /\ isNull_(vkind, call.vec)

\* The last call is a division of a rational by a rational that is zero.
RationalPreconditionFailed ==
    call.name = "/=" /\ "rat" \in DOMAIN call /\ call.rat.numerator = 0

\* C13: when an in-place mutator is called against its precondition (set
\* with an index >= N, /= 0, normalize() of the null vector, project() onto
\* the null vector, /= by a zero rational), the receiver is, component by
\* component, what it was before the call.
C13_StrongErrorSafety ==
    /\ VectorPreconditionFailed => components = call.pre
    /\ RationalPreconditionFailed => This = call.pre

ExactTerms(op, a, b) ==
    CASE op \in {"+", "+="} -> <<a.numerator * b.denominator + b.numerator * a.denominator,
                                 a.denominator * b.denominator>>
      [] op \in {"-", "-="} -> <<a.numerator * b.denominator - b.numerator * a.denominator,
                                 a.denominator * b.denominator>>
      [] op \in {"*", "*="} -> <<a.numerator * b.numerator, a.denominator * b.denominator>>
      [] op \in {"/", "/="} -> <<a.numerator * b.denominator, a.denominator * b.numerator>>

\* The last call is an arithmetic operator on two normalized rationals, the
\* divisor not being zero.
NormalizedArithmetic ==
    /\ call.name \in Arithmetic \cup {"+", "-", "*", "/"}
    /\ "rat" \in DOMAIN call
    /\ IsNormalized(call.pre)
    /\ IsNormalized(call.rat)
    /\ call.name \in {"/", "/="} => call.rat.numerator # 0

\* What the last arithmetic operator made: the receiver of the in-place
\* operator, the value returned by the other.
Result == IF call.name \in Arithmetic THEN This ELSE call.ret

\* C22: for normalized a and b (b not zero for a division), a + b, a - b,
\* a * b and a / b are the exact sum, difference, product and quotient, as
\* operator == compares them with the rational constructed from the exact
\* terms; a - a = 0/1, a * 0 = 0/1 and a * 1 = a.
C22_ArithmeticIsExact ==
    NormalizedArithmetic =>
        LET e == ExactTerms(call.name, call.pre, call.rat)
        IN  /\ call.outcome = "ok"
            /\ \A x \in Rational_Rational(e[1], e[2], TRUE) : Rational_eq(Result, x.value)
            /\ (call.name \in {"-", "-="} /\ call.rat = call.pre) => Result = Fraction(0, 1)
            /\ (call.name \in {"*", "*="} /\ call.rat = Fraction(0, 1)) => Result = Fraction(0, 1)
            /\ (call.name \in {"*", "*="} /\ call.rat = Fraction(1, 1)) => Result = call.pre

\* (4/3) / (3/4) = 16/9 would need terms beyond the bound; (4/3) * (3/4) = 1
\* is the product of the test.
C22_Witness ==
    /\ call.name = "*"
    /\ call.pre = Fraction(4, 3)
    /\ call.rat = Fraction(3, 4)
    /\ call.ret = Fraction(1, 1)

\* C23: for normalized a and b, a < b holds iff a.num * b.den < a.den * b.num,
\* a == b holds iff the numerators and the denominators are equal, and
\* exactly one of a < b, a == b, b < a is true; a <= a and a >= a hold.
C23_ComparisonTotalOrder ==
    (call.name = "compare" /\ IsNormalized(call.pre) /\ IsNormalized(call.rat)) =>
        LET a == call.pre
            b == call.rat
        IN  /\ call.lt <=> a.numerator * b.denominator < a.denominator * b.numerator
            /\ call.eq <=> (a.numerator = b.numerator /\ a.denominator = b.denominator)
            /\ \/ call.lt /\ ~call.eq /\ ~call.gt
               \/ ~call.lt /\ call.eq /\ ~call.gt
               \/ ~call.lt /\ ~call.eq /\ call.gt
            /\ a = b => call.le /\ call.ge

\* 3/4 < 4/3, as in the test.
C23_Witness ==
    /\ call.name = "compare"
    /\ call.pre = Fraction(3, 4)
    /\ call.rat = Fraction(4, 3)
    /\ call.lt
    /\ ~call.gt

(***************************************************************************)
(* Properties of Plane, checked under SpecPlane.                           *)
(***************************************************************************)
\* The last call ended well and divided nothing by zero.
EndedWell == call.outcome = "ok" /\ ~call.dbz

\* Every way isOn(point) ends on the plane as it is says the point is on it.
IsOnPlane(point) ==
    \A r \in Plane_isOn(vkind, normal, origin, point, asserts) :
        r.outcome = "ok" /\ r.value

\* C24: on a plane with a unit normal, whatever its distance from the origin,
\* the point getProjection(p) returns is on the plane (isOn says so), and it
\* is p itself when p is already on the plane.
C24_ProjectionIsOnPlane ==
    (call.name = "getProjection" /\ EndedWell /\ SumOfSquares(normal) = 1) =>
        /\ IsOnPlane(call.ret)
        /\ IsOnPlane(call.point) => call.ret = call.point

\* The scalar projection of the point of the last call on the stored normal.
ProjectionOnNormal ==
    {r.value : r \in getScalarProjection_(vkind, call.point, normal, asserts)}

\* C25: isOn, isOver and isUnder say that the scalar projection of the point
\* on the stored normal is equal to, greater than and less than the stored
\* distance, so exactly one of them is true; getDistance is the absolute
\* difference of the two, zero exactly when isOn; and the point a plane was
\* constructed or set from is on it.
C25_Classification ==
    /\ (call.name = "classify" /\ EndedWell) =>
        /\ \A p \in ProjectionOnNormal :
            /\ call.isOn = (p = origin)
            /\ call.isOver = (p > origin)
            /\ call.isUnder = (p < origin)
            /\ call.getDistance = Abs(p - origin)
        /\ Cardinality({q \in {"isOn", "isOver", "isUnder"} : call[q]}) = 1
        /\ (call.getDistance = 0) = call.isOn
    /\ (call.name = "set" /\ "point" \in DOMAIN call /\ EndedWell) => IsOnPlane(call.point)

C25_Witness ==
    /\ call.name = "classify"
    /\ EndedWell
    /\ call.isUnder
    /\ call.getDistance = 2
    /\ vkind = "Vector3"

\* C30: a.getIntersection(b) and b.getIntersection(a) have the same limits,
\* a.isIntersecting(b) answers as b.isIntersecting(a), and it answers true
\* exactly when on every axis the smaller upper limit is greater than the
\* greater lower limit.  Checked under Spec.
C30_IntersectionSymmetric ==
    /\ call.name = "getIntersection" =>
        call.ret = getIntersection_(kind, call.bounds, call.pre)
    /\ call.name = "isIntersecting" =>
        /\ call.ret = Bounds_isIntersecting(call.bounds, call.pre)
        /\ call.ret = ~isEmpty_(kind, getIntersection_(kind, call.pre, call.bounds))
        /\ call.ret = (\A i \in Axes : Min2(call.pre.upper[i], call.bounds.upper[i])
                                         > Max2(call.pre.lower[i], call.bounds.lower[i]))

(***************************************************************************)
(* Properties of the pure counterparts, checked under SpecCounterparts.    *)
(***************************************************************************)
\* The components the mutator stores in the ways it ends like the last call.
StoredBy(rs) ==
    {r.components : r \in {x \in rs : x.outcome = call.outcome /\ x.dbz = call.dbz}}

\* C26: getNormalization, getProjection, getRotation and getIntersection
\* leave the receiver as it was and return what normalize, project, rotate
\* and intersect store in it; and the mutators store what the counterparts
\* return.
C26_PureCounterparts ==
    /\ (~NoVector /\ call.name \in {"getNormalization", "getProjection", "getRotation"}) =>
        components = call.pre
    /\ (~NoVector /\ call.name = "getNormalization") =>
        call.ret \in StoredBy(normalize_(vkind, call.pre, asserts))
    /\ (~NoVector /\ call.name = "normalize") =>
        components \in StoredBy(getNormalization_(vkind, call.pre, asserts))
    /\ (~NoVector /\ call.name = "getProjection") =>
        call.ret \in StoredBy(project_(vkind, call.pre, call.vec, asserts))
    /\ (~NoVector /\ call.name = "project") =>
        components \in StoredBy(getProjection_(vkind, call.pre, call.vec, asserts))
    /\ (~NoVector /\ call.name = "getRotation") =>
        call.ret = Vector2_rotate(call.pre, call.angle)
    /\ (~NoVector /\ call.name = "rotate") =>
        components = Vector2_getRotation(call.pre, call.angle)
    /\ (NoVector /\ call.name = "getIntersection") =>
        /\ Self = call.pre
        /\ call.ret = intersect_(kind, call.pre, call.bounds, FALSE)
    /\ (NoVector /\ call.name = "intersect" /\ ~call.aliased) =>
        Self = getIntersection_(kind, call.pre, call.bounds)

C26_Witness ==
    /\ call.name = "getRotation"
    /\ call.angle = 1
    /\ call.pre = <<1, 2>>
    /\ call.ret = <<-2, 1>>

(***************************************************************************)
(* Properties of the Lua State and its stack, checked under SpecLua.       *)
(***************************************************************************)
\* C27: a State starts closed; it is always either open or closed, never
\* both; open() on a closed State leaves it open, or closed with a
\* runtime_error when lua_newstate fails; close() on an open State leaves it
\* closed, its pointer NULL.
C27_StateLifecycle ==
    /\ State_isOpen(state) # State_isClosed(state)
    /\ call.name = "State" => State_isClosed(state)
    /\ (call.name = "open" /\ State_isClosed(call.pre)) =>
        /\ call.outcome \in {"ok", "runtime_error"}
        /\ call.outcome = "ok" => State_isOpen(state)
        /\ call.outcome = "runtime_error" => State_isClosed(state)
    /\ (call.name = "close" /\ State_isOpen(call.pre)) =>
        /\ call.outcome = "ok"
        /\ State_isClosed(state)
        /\ state = 0

\* A State opened, closed and opened again.
C27_Witness ==
    /\ call.name = "open"
    /\ call.outcome = "ok"
    /\ State_isClosed(call.pre)
    /\ state = 2
    /\ lua_closes = <<1, 0>>

C29_ContextRestoresTop ==
    (call.name \in {"clean", "~StackContext"} /\ call.outcome = "ok") =>
        top = call.context.top

\* The inner of two contexts is destroyed after values were popped below
\* the top it recorded, the outer one recorded another top.
C29_Witness ==
    /\ call.name = "~StackContext"
    /\ call.outcome = "ok"
    /\ call.pre < call.context.top
    /\ Len(contexts) = 1
    /\ contexts[1].top # call.context.top
    /\ OnOpenState(contexts[1])

====
